---- MODULE Spec2Model ----
(***************************************************************************)
(* A model of the crash dump parser of crashdump_viewer_cli:               *)
(*   - the scanner and the byte-offset index (parser/parser.rs),           *)
(*   - the construction of the CrashDump from the index (parser/types.rs), *)
(*   - the recursive decoder of encoded Erlang terms (parser/types.rs).    *)
(*                                                                         *)
(* Text is modelled as the code sees it: a file, a header line, or an      *)
(* encoded term is a sequence of one-character strings (its bytes), and    *)
(* the slicing, splitting and trimming of the code are done on these       *)
(* sequences.  What the code formats for display is a TLA+ string.         *)
(*                                                                         *)
(* A Rust Option is modelled as a sequence of length at most one:          *)
(* None is << >> and Some(x) is <<x>>.  A panic (unwrap on None, a slice   *)
(* out of range, unreachable!()) ends the operation in the state "panic".  *)
(***************************************************************************)
EXTENDS Integers, Sequences, FiniteSets, TLC

VARIABLES
    file,          \* the bytes of the dump file
    pc,            \* where the program is
    scan_pos,      \* the searcher's position in the file (a byte offset)
    sink_matches,  \* IndexSink.matches
    index_map,     \* the IndexMap returned by build_index
    crash_dump,    \* the CrashDump
    term,          \* the encoded term handed to the decoder
    call_depth,    \* the depth the decoder is called with
    result,        \* what the decoder returned
    sent,          \* the messages from_index_map sent to its consumers, in order
    received,      \* how many of them the consumers have received
    busy,          \* the sections consumers are working on, with their lines left
    running,       \* how many consumer threads have not ended
    addrs,         \* the map the consumers insert the lines of ProcHeap sections in
    asked,         \* the last get_..._info call: its name and the id asked for
    text,          \* what it returned
    ancestor_map,  \* App.ancestor_map
    selected_tab,  \* App.selected_tab
    tab_lists,     \* App.tab_lists
    table_states,  \* App.table_states: the selected row of the table of each tab
    state,         \* App.state
    process_view_state,  \* App.process_view_state
    key_event      \* the key event handle_key_events was called with last

\* the state of the consumer threads of from_index_map
build_vars == <<sent, received, busy, running, addrs>>

\* the state of the App the key events change
ui_vars == <<selected_tab, tab_lists, table_states, state, process_view_state, key_event>>

\* the state the display queries and App::new add to the parser's
view_vars == <<asked, text, ancestor_map, ui_vars>>

vars ==
    <<file, pc, scan_pos, sink_matches, index_map, crash_dump, term, call_depth, result,
      build_vars, view_vars>>

-----------------------------------------------------------------------------
(* Bounds of the model. *)

\* a dump file of the model is made of at most this many chunks of lines
MaxChunks == 3

-----------------------------------------------------------------------------
(* Option, and the text primitives of the Rust standard library the code   *)
(* uses, on sequences of characters.                                       *)

None == << >>
Some(x) == <<x>>

RECURSIVE Str(_)
\* std::str::from_utf8 / to_string of ASCII bytes: the text as one string
Str(s) == IF s = << >> THEN "" ELSE s[1] \o Str(Tail(s))

Min(S) == CHOOSE x \in S : \A y \in S : x <= y

\* the 1-based index of the first occurrence of c in s, 0 when there is none
\* (Iterator::position, with the index shifted by one)
IndexOf(s, c) ==
    LET hits == {i \in 1..Len(s) : s[i] = c}
    IN  IF hits = {} THEN 0 ELSE Min(hits)

\* the 1-based index at which the first occurrence of the pattern p starts
FindPat(s, p) ==
    LET hits == {i \in 1..(Len(s) - Len(p) + 1) : SubSeq(s, i, i + Len(p) - 1) = p}
    IN  IF hits = {} THEN 0 ELSE Min(hits)

IsWhitespace(c) == c \in {" ", "\n", "\t", "\r"}

\* str::trim
Trim(s) ==
    LET keep == {i \in 1..Len(s) : ~IsWhitespace(s[i])}
    IN  IF keep = {} THEN << >>
        ELSE SubSeq(s, Min(keep), CHOOSE i \in keep : \A j \in keep : j <= i)

RECURSIVE Split(_, _)
\* str::split(c): the pieces between the occurrences of c, empty ones kept
Split(s, c) ==
    LET i == IndexOf(s, c)
    IN  IF i = 0 THEN <<s>>
        ELSE <<SubSeq(s, 1, i - 1)>> \o Split(SubSeq(s, i + 1, Len(s)), c)

\* str::splitn(2, p): split once at the first occurrence of the pattern p
SplitN2(s, p) ==
    LET i == FindPat(s, p)
    IN  IF i = 0 THEN <<s>>
        ELSE <<SubSeq(s, 1, i - 1), SubSeq(s, i + Len(p), Len(s))>>

\* a final empty piece is not a line
DropLastEmpty(parts) ==
    IF parts[Len(parts)] = << >> THEN SubSeq(parts, 1, Len(parts) - 1) ELSE parts

\* a "\r" before the line end belongs to the line end
DropCr(line) ==
    IF line # << >> /\ line[Len(line)] = "\r" THEN SubSeq(line, 1, Len(line) - 1) ELSE line

StripCrs(ls) == [i \in 1..Len(ls) |-> DropCr(ls[i])]

\* str::lines: split at "\n" or "\r\n"; a final empty line is not a line
Lines(s) == StripCrs(DropLastEmpty(Split(s, "\n")))

Digits == <<"0", "1", "2", "3", "4", "5", "6", "7", "8", "9">>

RECURSIVE DecString(_)
\* u64::to_string: the decimal digits of n
DecString(n) ==
    IF n < 10 THEN <<Digits[n + 1]>> ELSE DecString(n \div 10) \o <<Digits[(n % 10) + 1]>>

DigitValue(c) == (CHOOSE i \in 1..10 : Digits[i] = c) - 1

IsDigit(c) == \E i \in 1..10 : Digits[i] = c

RECURSIVE DecValue(_)
DecValue(s) ==
    IF s = << >> THEN 0 ELSE DecValue(SubSeq(s, 1, Len(s) - 1)) * 10 + DigitValue(s[Len(s)])

\* str::parse::<u64 | usize>: None unless s is a non-empty run of digits,
\* with an optional leading "+" (the lengths of the model stay far below 2^64)
ParseUnsigned(s) ==
    LET body == IF s # << >> /\ s[1] = "+" THEN Tail(s) ELSE s
    IN  IF body # << >> /\ \A i \in 1..Len(body) : IsDigit(body[i])
        THEN Some(DecValue(body)) ELSE None

\* Option::unwrap_or
UnwrapOr(opt, default) == IF opt = None THEN default ELSE opt[1]

-----------------------------------------------------------------------------
(* Section tags: parser/types.rs.  A Tag is modelled by its Debug name.    *)

TAG_PREAMBLE == "erl_crash_dump"
TAG_ABORT == "abort"
TAG_ALLOCATED_AREAS == "allocated_areas"
TAG_ALLOCATOR == "allocator"
TAG_ATOMS == "atoms"
TAG_BINARY == "binary"
TAG_DIRTY_CPU_SCHEDULER == "dirty_cpu_scheduler"
TAG_DIRTY_CPU_RUN_QUEUE == "dirty_cpu_run_queue"
TAG_DIRTY_IO_SCHEDULER == "dirty_io_scheduler"
TAG_DIRTY_IO_RUN_QUEUE == "dirty_io_run_queue"
TAG_ENDE == "ende"
TAG_ERL_CRASH_DUMP == "erl_crash_dump"
TAG_ETS == "ets"
TAG_FUN == "fun"
TAG_HASH_TABLE == "hash_table"
TAG_HIDDEN_NODE == "hidden_node"
TAG_INDEX_TABLE == "index_table"
TAG_INSTR_DATA == "instr_data"
TAG_INTERNAL_ETS == "internal_ets"
TAG_LITERALS == "literals"
TAG_LOADED_MODULES == "loaded_modules"
TAG_MEMORY == "memory"
TAG_MEMORY_MAP == "memory_map"
TAG_MEMORY_STATUS == "memory_status"
TAG_MOD == "mod"
TAG_NO_DISTRIBUTION == "no_distribution"
TAG_NODE == "node"
TAG_NOT_CONNECTED == "not_connected"
TAG_OLD_INSTR_DATA == "old_instr_data"
TAG_PERSISTENT_TERMS == "persistent_terms"
TAG_PORT == "port"
TAG_PROC == "proc"
TAG_PROC_DICTIONARY == "proc_dictionary"
TAG_PROC_HEAP == "proc_heap"
TAG_PROC_MESSAGES == "proc_messages"
TAG_PROC_STACK == "proc_stack"
TAG_SCHEDULER == "scheduler"
TAG_TIMER == "timer"
TAG_VISIBLE_NODE == "visible_node"
TAG_END == "end"

\* the arms of string_tag_to_enum, in the order of the match
TagArms ==
    << <<TAG_PREAMBLE, "Preamble">>, <<TAG_ABORT, "Abort">>,
       <<TAG_ALLOCATED_AREAS, "AllocatedAreas">>, <<TAG_ALLOCATOR, "Allocator">>,
       <<TAG_ATOMS, "Atoms">>, <<TAG_BINARY, "Binary">>,
       <<TAG_DIRTY_CPU_SCHEDULER, "DirtyCpuScheduler">>,
       <<TAG_DIRTY_CPU_RUN_QUEUE, "DirtyCpuRunQueue">>,
       <<TAG_DIRTY_IO_SCHEDULER, "DirtyIoScheduler">>,
       <<TAG_DIRTY_IO_RUN_QUEUE, "DirtyIoRunQueue">>,
       <<TAG_ENDE, "Ende">>, <<TAG_ERL_CRASH_DUMP, "ErlCrashDump">>,
       <<TAG_ETS, "Ets">>, <<TAG_FUN, "Fun">>, <<TAG_HASH_TABLE, "HashTable">>,
       <<TAG_HIDDEN_NODE, "HiddenNode">>, <<TAG_INDEX_TABLE, "IndexTable">>,
       <<TAG_INSTR_DATA, "InstrData">>, <<TAG_INTERNAL_ETS, "InternalEts">>,
       <<TAG_LITERALS, "Literals">>, <<TAG_LOADED_MODULES, "LoadedModules">>,
       <<TAG_MEMORY, "Memory">>, <<TAG_MEMORY_MAP, "MemoryMap">>,
       <<TAG_MEMORY_STATUS, "MemoryStatus">>, <<TAG_MOD, "Mod">>,
       <<TAG_NO_DISTRIBUTION, "NoDistribution">>, <<TAG_NODE, "Node">>,
       <<TAG_NOT_CONNECTED, "NotConnected">>, <<TAG_OLD_INSTR_DATA, "OldInstrData">>,
       <<TAG_PERSISTENT_TERMS, "PersistentTerms">>, <<TAG_PORT, "Port">>,
       <<TAG_PROC, "Proc">>, <<TAG_PROC_DICTIONARY, "ProcDictionary">>,
       <<TAG_PROC_HEAP, "ProcHeap">>, <<TAG_PROC_MESSAGES, "ProcMessages">>,
       <<TAG_PROC_STACK, "ProcStack">>, <<TAG_SCHEDULER, "Scheduler">>,
       <<TAG_TIMER, "Timer">>, <<TAG_VISIBLE_NODE, "VisibleNode">>,
       <<TAG_END, "End">> >>

\* what the fall-through arm `_ => unreachable!()` yields: a panic
Unreachable == "unreachable!()"

\* string_tag_to_enum: the first arm whose guard holds, else unreachable!()
string_tag_to_enum(tag) ==
    LET hits == {i \in 1..Len(TagArms) : TagArms[i][1] = tag}
    IN  IF hits = {} THEN Unreachable ELSE TagArms[Min(hits)][2]

-----------------------------------------------------------------------------
(* The scanner: grep's searcher with the matcher ^=.* and IndexSink.       *)

\* the byte offsets at which a line of f starts
LineStarts(f) ==
    (IF f = << >> THEN {} ELSE {0}) \cup {i \in 1..(Len(f) - 1) : f[i] = "\n"}

\* the line that starts at offset o, with its terminator when it has one:
\* what SinkMatch::bytes gives the sink
LineAt(f, o) ==
    LET rest == SubSeq(f, o + 1, Len(f))
        nl == IndexOf(rest, "\n")
    IN  IF nl = 0 THEN rest ELSE SubSeq(rest, 1, nl)

\* the offsets of the lines the matcher ^=.* matches
MatchOffsets(f) == {o \in LineStarts(f) : f[o + 1] = "="}

\* IndexSink::matched on one matching line: the triple it pushes, or a panic
matched(match_bytes, byte_offset) ==
    LET colon == IndexOf(match_bytes, ":")
        \* position(..).unwrap_or(len - 1), as a 0-based index
        tag_end == IF colon # 0 THEN colon - 1 ELSE Len(match_bytes) - 1
        \* &match_bytes[1..tag_end]
        tag == SubSeq(match_bytes, 2, tag_end)
        tag_enum == string_tag_to_enum(Str(tag))
        tag_id_string ==
            IF Len(match_bytes) > tag_end + 1
            THEN Some(Str(Trim(SubSeq(match_bytes, tag_end + 2, Len(match_bytes)))))
            ELSE None
    IN  IF tag_end < 1 \/ tag_enum = Unreachable
        THEN [panic |-> TRUE]
        ELSE [panic |-> FALSE, tag |-> tag_enum, id |-> tag_id_string,
              offset |-> byte_offset]

-----------------------------------------------------------------------------
(* The index: CDParser::build_index.                                       *)

\* the row with the offset of the next header where its length belongs
IndexRowUpTo(tag, id, start, length) ==
    [type |-> tag, id |-> id, start |-> DecString(start), length |-> DecString(start + length)]

IndexRow(tag, id, start, length) ==
    [type |-> tag, id |-> id, start |-> DecString(start), length |-> DecString(length)]

EmptyMap == [kind |-> "Map", map |-> << >>, list |-> << >>]
EmptyList == [kind |-> "List", map |-> << >>, list |-> << >>]

\* HashMap::insert on a map modelled as a function
MapInsert(m, k, v) == [x \in DOMAIN m \cup {k} |-> IF x = k THEN v ELSE m[x]]

\* what build_index has built so far: the map, or the panic that ended it
IndexOk(m) == [panic |-> FALSE, m |-> m]
IndexPanic == [panic |-> TRUE, m |-> << >>]

\* index_map.entry(tag).or_insert_with(..).as_map_mut().unwrap().insert(id, row)
\* or ...as_list_mut().unwrap().push(row); a panic when the unwrap fails
InsertRow(im, tag, id, row) ==
    IF im.panic THEN IndexPanic
    ELSE LET cur == IF tag \in DOMAIN im.m THEN im.m[tag]
                    ELSE IF id # None THEN EmptyMap ELSE EmptyList
         IN  IF id # None
             THEN IF cur.kind # "Map" THEN IndexPanic
                  ELSE IndexOk(MapInsert(im.m, tag,
                                         [cur EXCEPT !.map = MapInsert(cur.map, id[1], row)]))
             ELSE IF cur.kind # "List" THEN IndexPanic
                  ELSE IndexOk(MapInsert(im.m, tag,
                                         [cur EXCEPT !.list = Append(cur.list, row)]))

RECURSIVE InsertWindows(_, _, _)
\* the loop over sink.matches.windows(2), from window i on
InsertWindows(im, ms, i) ==
    IF i + 1 > Len(ms) THEN im
    ELSE InsertWindows(
            InsertRow(im, ms[i].tag, ms[i].id,
                      IndexRow(ms[i].tag, ms[i].id, ms[i].offset,
                               ms[i + 1].offset - ms[i].offset)),
            ms, i + 1)

\* the index build_index makes of the matches ms of a file of file_size bytes
BuildIndexMap(ms, file_size) ==
    LET windows == InsertWindows(IndexOk(<< >>), ms, 1)
    IN  IF ms = << >> THEN windows
        ELSE LET last == ms[Len(ms)]
             IN  InsertRow(windows, last.tag, last.id,
                           IndexRow(last.tag, last.id, last.offset,
                                    file_size - last.offset))

-----------------------------------------------------------------------------
(* Sections: CrashDump::load_section, GenericSection::from_str and         *)
(* parse_section.                                                          *)

\* str::parse::<i64>: None unless s is an optional sign and a run of digits
ParseSigned(s) ==
    LET signed == s # << >> /\ s[1] \in {"+", "-"}
        body == IF signed THEN Tail(s) ELSE s
    IN  IF body # << >> /\ \A i \in 1..Len(body) : IsDigit(body[i])
        THEN Some(IF signed /\ s[1] = "-" THEN 0 - DecValue(body) ELSE DecValue(body))
        ELSE None

\* load_section: the length bytes of f at start, as text
load_section(index_row, f) ==
    LET start_offset == UnwrapOr(ParseUnsigned(index_row.start), 0)
        length == UnwrapOr(ParseUnsigned(index_row.length), 0)
    IN  SubSeq(f, start_offset + 1, start_offset + length)

RECURSIVE ClassifyLines(_, _, _)
\* the loop of from_str over the body lines of a section that is not a
\* proc_stack: a line with ": " goes to data, any other to raw_lines
ClassifyLines(ls, data, raw_lines) ==
    IF ls = << >> THEN [data |-> data, raw_lines |-> raw_lines]
    ELSE LET parts == SplitN2(ls[1], <<":", " ">>)
         IN  IF Len(parts) = 2
             THEN ClassifyLines(Tail(ls),
                                MapInsert(data, Str(Trim(parts[1])), Trim(parts[2])),
                                raw_lines)
             ELSE ClassifyLines(Tail(ls), data, Append(raw_lines, ls[1]))

\* the header line of a section, split at every ":": the tag and the id
HeaderTag(header_parts) == Str(Trim(header_parts[1]))

HeaderId(header_parts) ==
    IF Len(header_parts) >= 2 THEN Some(Str(Trim(header_parts[2]))) ELSE None

\* the body lines of a section of the given tag, classified
SectionBody(tag, body_lines) ==
    IF tag = TAG_PROC_STACK
    THEN [data |-> << >>, raw_lines |-> body_lines]
    ELSE ClassifyLines(body_lines, << >>, << >>)

GenericSection(tag, id, body) ==
    [ok |-> TRUE, tag |-> tag, id |-> id, data |-> body.data, raw_lines |-> body.raw_lines]

\* GenericSection::from_str, on the lines of the text
FromLines(ls) ==
    IF ls = << >> THEN [ok |-> FALSE, err |-> "Missing header line"]
    ELSE IF ls[1] = << >> \/ ls[1][1] # "=" THEN [ok |-> FALSE, err |-> "Invalid header format"]
    ELSE GenericSection(HeaderTag(Split(Tail(ls[1]), ":")),
                        HeaderId(Split(Tail(ls[1]), ":")),
                        SectionBody(HeaderTag(Split(Tail(ls[1]), ":")), Tail(ls)))

\* GenericSection::from_str
GenericSection_from_str(s) == FromLines(Lines(s))

\* data[k].parse::<i64>().unwrap() succeeds
HasNumber(data, k) == k \in DOMAIN data /\ ParseSigned(data[k]) # None

PreambleKeys == {"Slogan", "System version", "Taints", "Atoms", "Calling Thread"}

MemoryKeys ==
    {"total", "processes", "processes_used", "system", "atom", "atom_used", "binary",
     "code", "ets"}

\* the Preamble arm of parse_section: raw_lines[0] and data[..] panic when absent
PreambleOf(section, id) ==
    IF /\ section.raw_lines # << >>
       /\ PreambleKeys \subseteq DOMAIN section.data
       /\ HasNumber(section.data, "Atoms")
    THEN [kind |-> "Preamble",
          preamble |->
            [version |-> id,
             time |-> Str(section.raw_lines[1]),
             slogan |-> Str(section.data["Slogan"]),
             erts |-> Str(section.data["System version"]),
             taints |-> Str(section.data["Taints"]),
             atom_count |-> ParseSigned(section.data["Atoms"])[1],
             calling_thread |-> Str(section.data["Calling Thread"])]]
    ELSE [kind |-> "panic"]

\* MemoryInfo::from_generic_section: data[..].parse().unwrap() on nine keys
MemoryInfo_from_generic_section(data) ==
    IF \A k \in MemoryKeys : HasNumber(data, k)
    THEN [kind |-> "Memory", memory |-> [k \in MemoryKeys |-> ParseSigned(data[k])[1]]]
    ELSE [kind |-> "panic"]

\* the match of parse_section on the tag of a section
DumpSection(section, tag) ==
    CASE tag = Unreachable -> [kind |-> "panic"]
      [] tag = "Preamble" -> PreambleOf(section, UnwrapOr(section.id, ""))
      [] tag = "Memory" -> MemoryInfo_from_generic_section(section.data)
      [] tag \in {"Proc", "ProcStack", "ProcMessages"} -> [kind |-> tag, section |-> section]
      [] OTHER -> [kind |-> "Generic", section |-> section]

ParseGeneric(section) ==
    IF ~section.ok THEN [kind |-> "Err"]
    ELSE DumpSection(section, string_tag_to_enum(section.tag))

\* parse_section: Err when from_str fails, a panic when an index or an unwrap
\* of a typed decoder fails, else the DumpSection.  The records of Proc,
\* ProcStack and ProcMessages are left in their generic form here.
parse_section(s) == ParseGeneric(GenericSection_from_str(s))

-----------------------------------------------------------------------------
(* The CrashDump: CrashDump::new and the sequential part of                *)
(* CrashDump::from_index_map.  The sections from_index_map hands to its    *)
(* consumer threads are those of kind Proc and ProcHeap.                   *)

PreambleDefault ==
    [version |-> "", time |-> "", slogan |-> "", erts |-> "", taints |-> "",
     atom_count |-> 0, calling_thread |-> ""]

MemoryDefault == [k \in MemoryKeys |-> 0]

\* CrashDump::new
CrashDumpNew ==
    [preamble |-> PreambleDefault,
     memory |-> MemoryDefault,
     processes |-> << >>,
     processes_heap |-> << >>,
     processes_stack |-> << >>,
     processes_messages |-> << >>,
     group_info_map |-> << >>,
     all_heap_addresses |-> << >>,
     visited_binaries |-> << >>]

\* the keyed rows (id -> row) and the unkeyed rows (in order) of a kind
KeyedRows(im, tag) ==
    IF tag \in DOMAIN im /\ im[tag].kind = "Map" THEN im[tag].map ELSE << >>

ListRows(im, tag) ==
    IF tag \in DOMAIN im /\ im[tag].kind = "List" THEN im[tag].list ELSE << >>

\* InfoOrIndex::Index(row) for every keyed row of a kind
IndexEntries(im, tag) ==
    LET rows == KeyedRows(im, tag)
    IN  [id \in DOMAIN rows |-> [index |-> rows[id]]]

\* Tag::Binary: the id of the row mapped to the row's length
BinaryLengths(im) ==
    LET rows == KeyedRows(im, "Binary")
        with_id == {id \in DOMAIN rows : rows[id].id # None}
    IN  [id \in with_id |-> UnwrapOr(ParseUnsigned(rows[id].length), 0)]

RECURSIVE InsertAddressLines(_, _, _)
\* raw_lines.for_each: a line that splits in two at the delimiter is inserted
InsertAddressLines(addresses, raw_lines, delim) ==
    IF raw_lines = << >> THEN addresses
    ELSE LET parts == SplitN2(raw_lines[1], <<delim>>)
         IN  InsertAddressLines(
                IF Len(parts) = 2 THEN MapInsert(addresses, Str(parts[1]), parts[2]) ELSE addresses,
                Tail(raw_lines), delim)

RECURSIVE InsertAddressSections(_, _, _, _)
\* the Literals (":") or PersistentTerms ("|") rows of the index, in order
InsertAddressSections(addresses, rows, f, delim) ==
    IF rows = << >> THEN addresses
    ELSE LET parsed == parse_section(load_section(rows[1], f))
         IN  InsertAddressSections(
                IF parsed.kind = "Generic"
                THEN InsertAddressLines(addresses, parsed.section.raw_lines, delim) ELSE addresses,
                Tail(rows), f, delim)

\* the sections from_index_map parses on its own thread, parsed
ParsedOnMainThread(im, f) ==
    {parse_section(load_section(KeyedRows(im, "Preamble")[id], f)) :
        id \in DOMAIN KeyedRows(im, "Preamble")}
    \cup UNION {{parse_section(load_section(ListRows(im, t)[i], f)) :
                    i \in 1..Len(ListRows(im, t))} :
                t \in {"Memory", "PersistentTerms", "Literals"}}

\* crash_dump.preamble after the Preamble rows were handled: the preamble of
\* the row handled last among those that parse (a HashMap is iterated in any
\* order), else the default
PreambleChoices(im, f) ==
    LET rows == KeyedRows(im, "Preamble")
        parsed == {parse_section(load_section(rows[id], f)) : id \in DOMAIN rows}
        good == {p.preamble : p \in {q \in parsed : q.kind = "Preamble"}}
    IN  IF good = {} THEN {PreambleDefault} ELSE good

\* crash_dump.memory after the Memory rows were handled, in list order
MemoryAfter(im, f) ==
    LET rows == ListRows(im, "Memory")
        good == {i \in 1..Len(rows) : parse_section(load_section(rows[i], f)).kind = "Memory"}
    IN  IF good = {} THEN MemoryDefault
        ELSE parse_section(load_section(rows[CHOOSE i \in good : \A j \in good : j <= i], f)).memory

\* crash_dump.all_heap_addresses after the Literals and PersistentTerms rows
\* were handled, Literals first or PersistentTerms first
AddressesAfter(im, f, literals_first) ==
    LET lit(a) == InsertAddressSections(a, ListRows(im, "Literals"), f, ":")
        per(a) == InsertAddressSections(a, ListRows(im, "PersistentTerms"), f, "|")
    IN  IF literals_first THEN per(lit(<< >>)) ELSE lit(per(<< >>))

-----------------------------------------------------------------------------
(* The dump files of the model: up to MaxChunks chunks, each followed by a *)
(* newline, the last one with or without it.                               *)

HdrPreamble ==
    <<"=","e","r","l","_","c","r","a","s","h","_","d","u","m","p",":","0",".","5">>
PreambleBody ==
    <<"T","\n","S","l","o","g","a","n",":"," ","s","\n","S","y","s","t","e","m"," ","v","e","r","s","i","o","n",":"," ","v","\n","T","a","i","n","t","s",":"," ","t","\n","A","t","o","m","s",":"," ","1","\n","C","a","l","l","i","n","g"," ","T","h","r","e","a","d",":"," ","c">>
HdrBinary ==
    <<"=","b","i","n","a","r","y",":","B","1">>
HdrBinaryWs ==
    <<"=","b","i","n","a","r","y",":","B","1"," ">>
HdrBinaryNoId ==
    <<"=","b","i","n","a","r","y">>
HdrProcStack ==
    <<"=","p","r","o","c","_","s","t","a","c","k",":","P","1">>
HdrEnd ==
    <<"=","e","n","d">>
HdrEndWs ==
    <<"=","e","n","d"," ">>
HdrUnknown ==
    <<"=","f","o","o",":","X">>
HdrLiterals ==
    <<"=","l","i","t","e","r","a","l","s">>
BodyLine ==
    <<"A",":","I","7">>

Chunks ==
    {HdrPreamble, PreambleBody, HdrBinary, HdrBinaryWs, HdrBinaryNoId, HdrProcStack,
     HdrEnd, HdrEndWs, HdrUnknown, HdrLiterals, BodyLine}

RECURSIVE Concat(_)
Concat(cs) == IF cs = << >> THEN << >> ELSE cs[1] \o <<"\n">> \o Concat(Tail(cs))

ChunkSeqs == UNION {[1..n -> Chunks] : n \in 0..MaxChunks}

DumpFiles ==
    {Concat(cs) : cs \in ChunkSeqs}
        \cup {SubSeq(Concat(cs), 1, Len(Concat(cs)) - 1) : cs \in ChunkSeqs \ {<< >>}}

-----------------------------------------------------------------------------
(* The program as a state machine: scanning and indexing.                  *)

\* no consumer thread was spawned, nothing was sent
NotBuilding ==
    /\ sent = << >>
    /\ received = 0
    /\ busy = {}
    /\ running = 0
    /\ addrs = << >>

NoText == [status |-> "ok", lines |-> << >>]

\* no query was made, App::new has not built the ancestor map
\* SelectedTab, its variants in the order of their discriminants
Tabs == <<"General", "ProcessGroup", "Process", "Inspect">>
AllTabs == {Tabs[i] : i \in 1..Len(Tabs)}

\* no key event was handled yet
NoKey == [code |-> "", modifiers |-> "NONE"]

\* App::default(): the first tab, for every tab an empty list and a
\* TableState without a selected row
AppDefault ==
    /\ selected_tab = "General"
    /\ tab_lists = [tab \in AllTabs |-> << >>]
    /\ table_states = [tab \in AllTabs |-> None]
    /\ state = "Running"
    /\ process_view_state = "Stack"
    /\ key_event = NoKey

NoView ==
    /\ asked = [name |-> "", id |-> ""]
    /\ text = NoText
    /\ ancestor_map = << >>
    /\ AppDefault

NoTerm == << >>
NoResult == [status |-> "ok", s |-> "", calls |-> << >>]

InitIndex ==
    /\ file \in DumpFiles
    /\ pc = "search"
    /\ scan_pos = 0
    /\ sink_matches = << >>
    /\ index_map = << >>
    /\ crash_dump = CrashDumpNew
    /\ term = NoTerm
    /\ call_depth = 0
    /\ result = NoResult
    /\ NotBuilding
    /\ NoView

\* the matching lines the searcher has not yet handed to the sink
Pending == {o \in MatchOffsets(file) : o >= scan_pos}

\* the searcher finds the next matching line and calls IndexSink::matched
Matched ==
    /\ pc = "search"
    /\ Pending # {}
    /\ LET o == Min(Pending)
           line == LineAt(file, o)
           m == matched(line, o)
       IN  /\ scan_pos' = o + Len(line)
           /\ IF m.panic
              THEN /\ pc' = "panic in matched"
                   /\ UNCHANGED sink_matches
              ELSE /\ sink_matches' = Append(sink_matches, [tag |-> m.tag, id |-> m.id, offset |-> m.offset])
                   /\ UNCHANGED pc
    /\ UNCHANGED <<file, index_map, crash_dump, term, call_depth, result, build_vars, view_vars>>

\* the search is over: build_index turns the matches into the IndexMap
build_index ==
    /\ pc = "search"
    /\ Pending = {}
    /\ LET im == BuildIndexMap(sink_matches, Len(file))
       IN  IF im.panic
           THEN /\ pc' = "panic in build_index"
                /\ UNCHANGED index_map
           ELSE /\ pc' = "indexed"
                /\ index_map' = im.m
    /\ UNCHANGED <<file, scan_pos, sink_matches, crash_dump, term, call_depth, result, build_vars, view_vars>>

\* CrashDump::from_index_map, for an index without Proc and ProcHeap rows
\* (nothing is sent to the consumer threads, which end when tx is dropped)
from_index_map ==
    /\ pc = "indexed"
    /\ KeyedRows(index_map, "Proc") = << >>
    /\ KeyedRows(index_map, "ProcHeap") = << >>
    /\ IF \E p \in ParsedOnMainThread(index_map, file) : p.kind = "panic"
       THEN /\ pc' = "panic in from_index_map"
            /\ UNCHANGED crash_dump
       ELSE /\ pc' = "built"
            /\ \E preamble \in PreambleChoices(index_map, file), literals_first \in BOOLEAN :
                 crash_dump' =
                    [CrashDumpNew EXCEPT
                        !.preamble = preamble,
                        !.memory = MemoryAfter(index_map, file),
                        !.processes_stack = IndexEntries(index_map, "ProcStack"),
                        !.processes_messages = IndexEntries(index_map, "ProcMessages"),
                        !.visited_binaries = BinaryLengths(index_map),
                        !.all_heap_addresses =
                            AddressesAfter(index_map, file, literals_first)]
    /\ UNCHANGED <<file, scan_pos, sink_matches, index_map, term, call_depth, result, build_vars, view_vars>>

NextIndex == Matched \/ build_index \/ from_index_map

SpecIndex == InitIndex /\ [][NextIndex]_vars

-----------------------------------------------------------------------------
(* Claims about the scanner, the index and the construction of the model.  *)

\* build_index has returned an IndexMap
IndexReturned == pc \in {"indexed", "built", "panic in from_index_map"}

\* every index row stored in an IndexMap: the values of the keyed maps and
\* the elements of the lists
StoredRows(im) ==
    UNION {{im[t].map[id] : id \in DOMAIN im[t].map}
              \cup {im[t].list[i] : i \in 1..Len(im[t].list)} : t \in DOMAIN im}

RECURSIVE SumOfLengths(_)
SumOfLengths(rows) ==
    IF rows = {} THEN 0
    ELSE LET r == CHOOSE x \in rows : TRUE
         IN  UnwrapOr(ParseUnsigned(r.length), 0) + SumOfLengths(rows \ {r})

\* the file starts with the header of the erl_crash_dump section
StartsWithPreamble ==
    /\ sink_matches # << >>
    /\ sink_matches[1].offset = 0
    /\ sink_matches[1].tag = "Preamble"

\* two headers of the same kind carry the same id
SameKindSameId ==
    \E i, j \in 1..Len(sink_matches) :
        /\ i < j
        /\ sink_matches[i].tag = sink_matches[j].tag
        /\ sink_matches[i].id # None
        /\ sink_matches[i].id = sink_matches[j].id

\* C1: after build_index on a dump file (a file that starts with the
\* erl_crash_dump header), the length fields of all the rows stored in the
\* returned IndexMap add up to the length of the file in bytes.
C1_LengthsCoverFile ==
    (IndexReturned /\ StartsWithPreamble)
        => SumOfLengths(StoredRows(index_map)) = Len(file)

\* C2: when two section headers of the same kind carry the same id,
\* build_index does not return an index (it reports a format error).
C2_IdCollisionIsError == SameKindSameId => ~IndexReturned

\* the header line the searcher handed to the sink last
LastMatchOffset == CHOOSE o \in MatchOffsets(file) : o + Len(LineAt(file, o)) = scan_pos

LastMatchLine == LineAt(file, LastMatchOffset)

\* the tag of a header line as the section parser reads it: the text between
\* "=" and the first ":", trimmed
TagText(line) == HeaderTag(Split(Tail(line), ":"))

KnownTags == {TagArms[i][1] : i \in 1..Len(TagArms)}

\* C3: a header line whose tag is not one of the known section tags does not
\* abort the scan.
C3_UnknownTagDoesNotAbort ==
    pc = "panic in matched" => TagText(LastMatchLine) \in KnownTags

\* a header line without its trailing whitespace, terminated by a newline
CleanHeader(line) == Trim(line) \o <<"\n">>

\* the entry of sink.matches for the header at offset o, if there is one
SinkEntryAt(o) == {m \in {sink_matches[i] : i \in 1..Len(sink_matches)} : m.offset = o}

\* the scanner has indexed the header at offset o as it indexes the same
\* header written without trailing whitespace and with a final newline
IndexedLikeClean(o, clean) ==
    clean.panic \/ \E m \in SinkEntryAt(o) : m.tag = clean.tag /\ m.id = clean.id

\* C4: a header line with trailing whitespace after the tag or after the id,
\* or a final header line with no terminating newline, is indexed under the
\* kind and id of the same header written without the trailing whitespace.
C4_TrailingWhitespaceAccepted ==
    \A o \in MatchOffsets(file) :
        (o + Len(LineAt(file, o)) <= scan_pos)
            => IndexedLikeClean(o, matched(CleanHeader(LineAt(file, o)), o))

\* C5: the model is not built (a format error is reported) for a file with no
\* section header line, or whose first section is not erl_crash_dump.
C5_NoPreambleIsError ==
    pc = "built" => (sink_matches # << >> /\ sink_matches[1].tag = "Preamble")

-----------------------------------------------------------------------------
(* The decoder of encoded terms: CrashDump::parse_datatype and the         *)
(* functions it dispatches to.  A Result<String, String> is the record     *)
(* [status, s, calls]: status is "ok" (s is the rendering), "err" (s is    *)
(* the error) or "panic" (a slice out of range); calls is the log of the   *)
(* parse_datatype calls made below, in the order they were entered, each   *)
(* with its arguments, what it returned and the number of calls it made.   *)

MAX_DEPTH_PARSE_DATATYPE == 5

Ok(s) == [status |-> "ok", s |-> s, calls |-> << >>]
Err(s) == [status |-> "err", s |-> s, calls |-> << >>]
Panic == [status |-> "panic", s |-> "byte index out of range", calls |-> << >>]

\* the characters of a string
Chars(s) == [i \in 1..Len(s) |-> SubSeq(s, i, i)]

RECURSIVE Join(_, _)
\* [String]::join
Join(items, sep) ==
    IF items = << >> THEN ""
    ELSE IF Len(items) = 1 THEN items[1]
    ELSE items[1] \o sep \o Join(Tail(items), sep)

HexDigits == <<"0", "1", "2", "3", "4", "5", "6", "7", "8", "9", "a", "b", "c", "d", "e", "f">>
HexDigitsUpper == <<"0", "1", "2", "3", "4", "5", "6", "7", "8", "9", "A", "B", "C", "D", "E", "F">>

\* char::is_digit(16)
IsHexDigit(c) == \E i \in 1..16 : HexDigits[i] = c \/ HexDigitsUpper[i] = c

HexDigitValue(c) == (CHOOSE i \in 1..16 : HexDigits[i] = c \/ HexDigitsUpper[i] = c) - 1

RECURSIVE HexValue(_)
HexValue(s) ==
    IF s = << >> THEN 0 ELSE HexValue(SubSeq(s, 1, Len(s) - 1)) * 16 + HexDigitValue(s[Len(s)])

RECURSIVE SkipZeros(_)
SkipZeros(s) == IF s # << >> /\ s[1] = "0" THEN SkipZeros(Tail(s)) ELSE s

\* the digits of s after an optional leading "+"
Unsigned(s) == IF s # << >> /\ s[1] = "+" THEN Tail(s) ELSE s

\* usize::from_str_radix(s, 16): the value v, or the error of the ParseIntError
\* (the numbers of the model stay far below 2^64: 16 significant digits)
from_str_radix(s) ==
    IF s = << >> THEN [status |-> "err", s |-> "cannot parse integer from empty string", v |-> 0]
    ELSE IF Unsigned(s) = << >> \/ \E i \in 1..Len(Unsigned(s)) : ~IsHexDigit(Unsigned(s)[i])
    THEN [status |-> "err", s |-> "invalid digit found in string", v |-> 0]
    ELSE IF Len(SkipZeros(Unsigned(s))) > 16
    THEN [status |-> "err", s |-> "number too large to fit in target type", v |-> 0]
    ELSE [status |-> "ok", s |-> "", v |-> HexValue(Unsigned(s))]

RECURSIVE ToHex(_, _)
\* format!("{:x}") and format!("{:X}"): n in the given hexadecimal digits
ToHex(n, digits) ==
    IF n < 16 THEN digits[n + 1] ELSE ToHex(n \div 16, digits) \o digits[(n % 16) + 1]

\* the early return of parse_datatype
DepthCappedLate(depth) == depth > MAX_DEPTH_PARSE_DATATYPE + 1
DepthCapped(depth) == depth > MAX_DEPTH_PARSE_DATATYPE

\* format!("(*{})", data)
MarkerTwice(data) == "(*(*" \o Str(data) \o "))"
Marker(data) == "(*" \o Str(data) \o ")"

\* the fall-through arm of the match of parse_datatype
DontKnow(data, depth) ==
    Ok("---don't know how to parse " \o Str(data) \o " at depth " \o ToString(depth) \o "---")

\* parse_string and parse_atom: what follows the first ":", else nothing
parse_string(data) ==
    IF Len(SplitN2(data, <<":">>)) > 1 THEN Str(SplitN2(data, <<":">>)[2]) ELSE ""

parse_atom(data) ==
    IF Len(SplitN2(data, <<":">>)) > 1 THEN Str(SplitN2(data, <<":">>)[2]) ELSE ""

\* parse_int, and the map(|i| i.to_string()) of parse_datatype on its result
\* (the integers of the model stay far below 2^63)
parse_int(data) ==
    IF ParseSigned(Tail(data)) # None THEN Ok(ToString(ParseSigned(Tail(data))[1]))
    ELSE IF Tail(data) = << >> THEN Err("cannot parse integer from empty string")
    ELSE Err("invalid digit found in string")

StartsWith(data, prefix) ==
    Len(data) >= Len(prefix) /\ SubSeq(data, 1, Len(prefix)) = prefix

parse_bignum(data) ==
    IF StartsWith(data, <<"B", "1", "6", "#">>) \/ StartsWith(data, <<"B", "-", "1", "6", "#">>)
    THEN Ok("[bignum size: " \o ToString(Len(data) - 4) \o "]")
    ELSE Ok("[bignum size: " \o ToString(Len(data) - 1) \o "]")

\* parse_float on the parts of data[1..] split once at ":"
FloatOf(data, parts) ==
    IF Len(parts) # 2 THEN Err("Invalid float format: " \o Str(data))
    ELSE IF from_str_radix(parts[1]).status # "ok" THEN Err(from_str_radix(parts[1]).s)
    ELSE IF from_str_radix(parts[1]).v # Len(parts[2])
    THEN Err("Float length mismatch: expected " \o ToString(from_str_radix(parts[1]).v)
                \o ", got " \o ToString(Len(parts[2])))
    ELSE Ok("[float: " \o Str(parts[2]) \o "]")

parse_float(data) == FloatOf(data, SplitN2(Tail(data), <<":">>))

parse_pid(data) ==
    IF data[1] = "P" THEN Ok("[external pid: " \o Str(Tail(data)) \o "]")
    ELSE IF data[1] = "p" THEN Ok("[external port: " \o Str(Tail(data)) \o "]")
    ELSE Err("Invalid pid/port format: " \o Str(data))

\* the first of binp0, offset and sz that is not a hexadecimal number, 0 if
\* all three are
FirstBadNumber(parts) ==
    IF \A i \in 1..3 : from_str_radix(parts[i]).status = "ok" THEN 0
    ELSE Min({i \in 1..3 : from_str_radix(parts[i]).status # "ok"})

\* the "c" arm of parse_binary, given binp0, offset and sz
RefCountedBinary(self, binp0, offset, sz) ==
    IF ToHex(binp0, HexDigitsUpper) \in DOMAIN self.visited_binaries
    THEN Ok("[ref-counted binary: binp0=0x" \o ToHex(binp0, HexDigits)
              \o ", offset=" \o ToString(offset) \o ", sz=" \o ToString(sz)
              \o ", len=" \o ToString(self.visited_binaries[ToHex(binp0, HexDigitsUpper)]) \o "]")
    ELSE Ok("[ref-counted binary: binp0=0x" \o ToHex(binp0, HexDigits)
              \o ", offset=" \o ToString(offset) \o ", sz=" \o ToString(sz) \o ", not found]")

\* the "s" arm of parse_binary, given binp0, offset and sz
SubBinary(self, binp0, offset, sz) ==
    IF ToHex(binp0, HexDigitsUpper) \in DOMAIN self.visited_binaries
    THEN IF offset + sz > self.visited_binaries[ToHex(binp0, HexDigitsUpper)]
         THEN Err("Sub binary out of bounds: start=" \o ToString(offset)
                    \o ", end=" \o ToString(offset + sz) \o ", len="
                    \o ToString(self.visited_binaries[ToHex(binp0, HexDigitsUpper)]))
         ELSE Ok("[sub binary: binp0=0x" \o ToHex(binp0, HexDigits)
                   \o ", offset=" \o ToString(offset) \o ", sz=" \o ToString(sz)
                   \o ", start=" \o ToString(offset) \o ", end=" \o ToString(offset + sz) \o "]")
    ELSE Ok("[sub binary: binp0=0x" \o ToHex(binp0, HexDigits)
              \o ", offset=" \o ToString(offset) \o ", sz=" \o ToString(sz) \o ", not found]")

\* the "c" and "s" arms of parse_binary on the parts of data[2..] split at ":"
BinaryOf(self, data, parts) ==
    IF Len(parts) # 3
    THEN Err((IF data[2] = "c" THEN "Invalid reference-counted binary format: "
              ELSE "Invalid sub binary format: ") \o Str(data))
    ELSE IF FirstBadNumber(parts) # 0 THEN Err(from_str_radix(parts[FirstBadNumber(parts)]).s)
    ELSE IF data[2] = "c"
    THEN RefCountedBinary(self, from_str_radix(parts[1]).v, from_str_radix(parts[2]).v,
                          from_str_radix(parts[3]).v)
    ELSE SubBinary(self, from_str_radix(parts[1]).v, from_str_radix(parts[2]).v,
                   from_str_radix(parts[3]).v)

\* parse_binary: data[1..2] and data[3..] panic on a shorter text
parse_binary(self, data) ==
    IF Len(data) < 2 THEN Panic
    ELSE IF data[2] = "h"
    THEN IF Len(data) < 3 THEN Panic
         ELSE Ok("[heap binary: " \o Str(SubSeq(data, 4, Len(data))) \o "]")
    ELSE IF data[2] \in {"c", "s"} THEN BinaryOf(self, data, Split(SubSeq(data, 3, Len(data)), ":"))
    ELSE Err("Invalid binary type: " \o Str(data))

\* parse_funref: data[2..] panics on a shorter text
parse_funref(data) ==
    IF Len(data) < 2 THEN Panic
    ELSE Ok("[fun ref: " \o Str(SubSeq(data, 3, Len(data))) \o "]")

\* parse_encoded_term on the parts of data[1..] split once at ":"
EncodedTermOf(data, parts) ==
    IF Len(parts) # 2 THEN Err("Invalid heap binary format: " \o Str(Tail(data)))
    ELSE IF from_str_radix(parts[1]).status # "ok" THEN Err(from_str_radix(parts[1]).s)
    ELSE Ok("<<bin size " \o ToString(from_str_radix(parts[1]).v) \o ">>")

parse_encoded_term(data) == EncodedTermOf(data, SplitN2(Tail(data), <<":">>))

RECURSIVE TupleElements(_)
\* the loop of parse_tuple over the size: what is left after the ":" that
\* ends the hexadecimal size (nothing when there is no ":"), or None on a
\* character that is neither a hexadecimal digit nor ":"
TupleElements(chars) ==
    IF chars = << >> THEN Some(<< >>)
    ELSE IF IsHexDigit(chars[1]) THEN TupleElements(Tail(chars))
    ELSE IF chars[1] = ":" THEN Some(Tail(chars))
    ELSE None

\* parse_heap when the address is not in all_heap_addresses
UnresolvedDropped(addr) == Ok("")
Unresolved(addr) == Ok("*U - " \o Str(addr))

\* what parse_datatype(data, depth) returns when its body returned r: the
\* call is logged in front of the calls made below it
Returned(data, depth, r) ==
    [status |-> r.status, s |-> r.s,
     calls |-> <<[data |-> data, depth |-> depth, status |-> r.status, s |-> r.s,
                  nested |-> Len(r.calls)]>> \o r.calls]

\* format!("[{}]", parsed.join(", ")) after the "?" on the collected results
Formatted(open, parsed, close) ==
    IF parsed.status = "ok"
    THEN [status |-> "ok", s |-> open \o Join(parsed.items, ", ") \o close,
          calls |-> parsed.calls]
    ELSE [status |-> parsed.status, s |-> parsed.s, calls |-> parsed.calls]

RECURSIVE parse_datatype(_, _, _)
RECURSIVE Dispatch(_, _, _)
RECURSIVE Collect(_, _, _, _)
RECURSIVE Collected(_, _, _, _, _)
RECURSIVE parse_tuple(_, _, _)
RECURSIVE parse_list(_, _, _)
RECURSIVE parse_heap(_, _, _)

\* parts.map(|x| self.parse_datatype(x, depth)).collect::<Result<Vec<_>, _>>():
\* the parts are decoded in order and the first Err ends the iteration
Collect(self, parts, depth, acc) ==
    IF parts = << >> THEN acc
    ELSE Collected(self, Tail(parts), depth, acc, parse_datatype(self, parts[1], depth))

Collected(self, rest, depth, acc, r) ==
    IF r.status = "ok"
    THEN Collect(self, rest, depth,
                 [status |-> "ok", s |-> "", items |-> Append(acc.items, r.s),
                  calls |-> acc.calls \o r.calls])
    ELSE [status |-> r.status, s |-> r.s, items |-> << >>, calls |-> acc.calls \o r.calls]

parse_tuple(self, data, depth) ==
    IF TupleElements(Tail(data)) = None THEN Err("Invalid tuple size format: " \o Str(data))
    ELSE Formatted("{",
                   Collect(self, Split(TupleElements(Tail(data))[1], ","), depth,
                           [status |-> "ok", s |-> "", items |-> << >>, calls |-> << >>]),
                   "}")

parse_list(self, data, depth) ==
    Formatted("[",
              Collect(self, Split(Tail(data), "|"), depth,
                      [status |-> "ok", s |-> "", items |-> << >>, calls |-> << >>]),
              "]")

parse_heap(self, data, depth) ==
    IF Str(Tail(data)) \in DOMAIN self.all_heap_addresses
    THEN parse_datatype(self, self.all_heap_addresses[Str(Tail(data))], depth)
    ELSE Unresolved(Tail(data))

\* the match of parse_datatype on the first character of data
Dispatch(self, data, depth) ==
    IF data = << >> THEN DontKnow(data, depth)
    ELSE CASE data[1] = "t" -> parse_tuple(self, data, depth)
           [] data[1] = "A" -> Ok(parse_atom(data))
           [] data[1] = "I" -> parse_int(data)
           [] data[1] = "N" -> Ok("")
           [] data[1] = "l" -> parse_list(self, data, depth)
           [] data[1] = "H" -> parse_heap(self, data, depth)
           [] data[1] = "E" -> parse_encoded_term(data)
           [] data[1] = "B" -> parse_bignum(data)
           [] data[1] = "F" -> parse_float(data)
           [] data[1] \in {"P", "p"} -> parse_pid(data)
           [] data[1] = "Y" -> parse_binary(self, data)
           [] data[1] = "M" -> Ok("M: " \o Str(data))
           [] data[1] = "R" -> parse_funref(data)
           [] data[1] = "S" -> Ok(parse_string(data))
           [] OTHER -> DontKnow(data, depth)

\* CrashDump::parse_datatype
parse_datatype(self, data, depth) ==
    IF DepthCapped(depth) THEN Returned(data, depth, Ok(Marker(data)))
    ELSE Returned(data, depth, Dispatch(self, data, depth + 1))

-----------------------------------------------------------------------------
(* Decoding: the dump files whose literals make the address map, the terms *)
(* handed to the decoder, and the program from the scan to the decoding.   *)

\* a term of the model is any text of at most this many characters of
\* TermChars, or one of the Examples
MaxTermLen == 2

TermChars == {"l", "H", "I", "N", "|", "5", "A", "t", ":", ","}

Examples ==
    {Chars(s) : s \in
        {"lI5|HFF01|N", "lI5|HFF02", "lHFF01|HFF02", "lI|HFF02", "HA", "HFF01", "lHA|N",
         "t2:I1,I2", "t2:HA,HFF01", "tx", "A3:foo", "I123", "I-7", "I+", "E3:abc", "E3",
         "B16#FF", "B123", "F3:1.5", "F2:1.5", "Pxyz", "p1", "Y", "Yh", "Yh3:abc",
         "YcB1:0:2", "YcC2:0:2", "YsB1:0:2", "YsB1:8:9", "Ysx:0:2", "Yx", "Mf1", "R",
         "Rf12", "S:hi", "x", "lllllI5", "llllllI5", "t2:I1,YsB1:8:9", "lYsB1:8:9|I5"}}

Terms == UNION {[1..n -> TermChars] : n \in 0..MaxTermLen} \cup Examples

\* the depths parse_datatype is called with: 0 by load_proc_heap,
\* load_proc_stack and load_proc_message_queue, up to the cap and one beyond
\* it by the decoder itself
Depths == {0, MAX_DEPTH_PARSE_DATATYPE, MAX_DEPTH_PARSE_DATATYPE + 1}

\* the lines of the literals section of a dump file: "addr:term"
Literals ==
    {<< >>,
     <<"FF01:I7">>,
     <<"A:HB", "B:HC", "C:HA">>,
     <<"A:HA">>,
     <<"A:lI5|HA">>,
     <<"A:t2:HA,HA">>,
     <<"A:I">>,
     <<"A:I5", "5:N", "FF01:HA">>}

\* a dump file with a binary section and a literals section of these lines
DecodeFile(lits) ==
    Concat(<<HdrPreamble, PreambleBody, HdrBinary, BodyLine>>)
        \o (IF lits = << >> THEN << >>
            ELSE Concat(<<HdrLiterals>> \o [i \in 1..Len(lits) |-> Chars(lits[i])]))

DecodeFiles == {DecodeFile(lits) : lits \in Literals}

InitDecode ==
    /\ file \in DecodeFiles
    /\ pc = "search"
    /\ scan_pos = 0
    /\ sink_matches = << >>
    /\ index_map = << >>
    /\ crash_dump = CrashDumpNew
    /\ term = NoTerm
    /\ call_depth = 0
    /\ result = NoResult
    /\ NotBuilding
    /\ NoView

\* a caller hands a term to parse_datatype
ParseDatatype ==
    /\ pc = "built"
    /\ pc' = "decoded"
    /\ \E data \in Terms, d \in Depths :
         /\ term' = data
         /\ call_depth' = d
         /\ result' = parse_datatype(crash_dump, data, d)
    /\ UNCHANGED <<file, scan_pos, sink_matches, index_map, crash_dump, build_vars, view_vars>>

NextDecode == Matched \/ build_index \/ from_index_map \/ ParseDatatype

SpecDecode == InitDecode /\ [][NextDecode]_vars

-----------------------------------------------------------------------------
(* Claims about the decoder.                                               *)

\* parse_datatype has returned to its caller
Decoded == pc = "decoded"

\* the AddressMap of the decoder
AddressMap == crash_dump.all_heap_addresses

\* the number of places of the text s at which the text p starts
Occurrences(s, p) ==
    Cardinality({i \in 1..(Len(s) - Len(p) + 1) : SubSeq(s, i, i + Len(p) - 1) = p})

\* the call returned the raw term wrapped once, and made no call
ReturnedMarker(c) ==
    /\ c.status = "ok"
    /\ c.s = "(*" \o Str(c.data) \o ")"
    /\ Occurrences(c.s, "(*") = 1
    /\ c.nested = 0

\* the log starts with a call at depth 0 and a call entered after another is
\* at most one deeper: a call with depth d is the (d + 1)-th call of its chain
ChainsFollowDepth(calls) ==
    /\ calls[1].depth = 0
    /\ \A i \in 2..Len(calls) : calls[i].depth <= calls[i - 1].depth + 1

\* C6: for every AddressMap, cyclic ones included, and every term,
\* parse_datatype(term, 0) returns, no chain of nested parse_datatype calls is
\* longer than MAX_DEPTH_PARSE_DATATYPE + 2, and a call that is the
\* (MAX_DEPTH_PARSE_DATATYPE + 2)-th of its chain returns the marker "(*raw)"
\* without calling parse_datatype.
C6_ChainBoundedByDepthCap ==
    (Decoded /\ call_depth = 0) =>
        /\ ChainsFollowDepth(result.calls)
        /\ \A i \in 1..Len(result.calls) :
            /\ result.calls[i].depth + 1 <= MAX_DEPTH_PARSE_DATATYPE + 2
            /\ (result.calls[i].depth + 1 = MAX_DEPTH_PARSE_DATATYPE + 2)
                  => ReturnedMarker(result.calls[i])

\* HA was decoded from depth 0 with the cycle A -> HB, B -> HC, C -> HA: the
\* chain has MAX_DEPTH_PARSE_DATATYPE + 2 calls and ends in the marker
C6_CycleDecoded ==
    /\ Decoded
    /\ call_depth = 0
    /\ term = <<"H", "A">>
    /\ {"A", "B", "C"} \subseteq DOMAIN AddressMap
    /\ Len(result.calls) = MAX_DEPTH_PARSE_DATATYPE + 2
    /\ result.calls[Len(result.calls)].depth = MAX_DEPTH_PARSE_DATATYPE + 1
    /\ result.s = "(*HA)"

\* C7 as stated: every call of parse_datatype at a depth greater than or
\* equal to MAX_DEPTH_PARSE_DATATYPE returns a rendering with exactly one
\* marker, the raw term wrapped once, and calls parse_datatype no further.
C7_MarkerFromMaxDepth ==
    Decoded =>
        \A i \in 1..Len(result.calls) :
            (result.calls[i].depth >= MAX_DEPTH_PARSE_DATATYPE)
                => ReturnedMarker(result.calls[i])

\* C7, amended: every call of parse_datatype at a depth greater than
\* MAX_DEPTH_PARSE_DATATYPE returns a rendering with exactly one marker, the
\* raw term wrapped once, and calls parse_datatype no further; a call at depth
\* MAX_DEPTH_PARSE_DATATYPE still dispatches on the term.
C7_MarkerBeyondMaxDepth ==
    Decoded =>
        \A i \in 1..Len(result.calls) :
            (result.calls[i].depth > MAX_DEPTH_PARSE_DATATYPE)
                => ReturnedMarker(result.calls[i])

\* a list was decoded at depth MAX_DEPTH_PARSE_DATATYPE + 1: one marker
C7_ListBeyondMaxDepth ==
    /\ Decoded
    /\ call_depth = MAX_DEPTH_PARSE_DATATYPE + 1
    /\ term = Chars("lI5|HFF01|N")
    /\ result.s = "(*lI5|HFF01|N)"
    /\ Len(result.calls) = 1

\* the call is for a heap reference H<addr>
IsHeapRef(c) == c.data # << >> /\ c.data[1] = "H"

\* the i-th call of the log, for H<addr>, returned what the decoding of
\* AddressMap[addr] returned, which is the call entered next, one deeper
ReplacedByDecoding(calls, i) ==
    /\ Str(Tail(calls[i].data)) \in DOMAIN AddressMap
    /\ calls[i].nested >= 1
    /\ calls[i + 1].data = AddressMap[Str(Tail(calls[i].data))]
    /\ calls[i + 1].depth = calls[i].depth + 1
    /\ calls[i].status = calls[i + 1].status
    /\ calls[i].s = calls[i + 1].s

\* the call, for H<addr> with addr not in the AddressMap, returned "*U - addr"
RenderedUnresolved(c) ==
    /\ Str(Tail(c.data)) \notin DOMAIN AddressMap
    /\ c.status = "ok"
    /\ c.s = "*U - " \o Str(Tail(c.data))

\* C8 as stated: every heap reference H<addr> reached while decoding a term
\* from depth 0 is replaced by the decoding of AddressMap[addr] or rendered as
\* "*U - addr", and in no other form.
C8_HeapRefResolvedOrUnresolved ==
    (Decoded /\ call_depth = 0) =>
        \A i \in 1..Len(result.calls) :
            IsHeapRef(result.calls[i])
                => \/ ReplacedByDecoding(result.calls, i)
                   \/ RenderedUnresolved(result.calls[i])

\* C8, amended: a heap reference H<addr> reached at a depth of at most
\* MAX_DEPTH_PARSE_DATATYPE while decoding a term from depth 0 is replaced by
\* the decoding of AddressMap[addr] when addr is in the map and rendered as
\* "*U - addr" when it is not; one reached at a greater depth is rendered as
\* the marker "(*H<addr>)", whether addr is in the map or not.
C8_HeapRefResolvedUnresolvedOrCapped ==
    (Decoded /\ call_depth = 0) =>
        \A i \in 1..Len(result.calls) :
            IsHeapRef(result.calls[i])
                => IF result.calls[i].depth <= MAX_DEPTH_PARSE_DATATYPE
                   THEN \/ ReplacedByDecoding(result.calls, i)
                        \/ RenderedUnresolved(result.calls[i])
                   ELSE ReturnedMarker(result.calls[i])

\* a list of a resolved and an unresolved heap reference was decoded
C8_BothKindsDecoded ==
    /\ Decoded
    /\ call_depth = 0
    /\ term = Chars("lHFF01|HFF02")
    /\ DOMAIN AddressMap = {"FF01"}
    /\ result.s = "[7, *U - FF02]"

\* the elements of an encoded list: what follows "l", split at "|"
ListElements(data) == Split(Tail(data), "|")

\* the term is a list l<e1>|...|<en>|N
IsNilTerminatedList(data) ==
    /\ data # << >>
    /\ data[1] = "l"
    /\ ListElements(data)[Len(ListElements(data))] = <<"N">>

\* the renderings returned by the calls the top call made itself, in order
TopRenderings ==
    LET top == SelectSeq(Tail(result.calls), LAMBDA c : c.depth = call_depth + 1)
    IN  [i \in 1..Len(top) |-> top[i].s]

\* C9: a list l<e1>|...|<en>|N decoded from depth 0 renders as "[r1, ..., rn]"
\* with ri the rendering of ei, the N tail adding no element and no
\* separator; with the AddressMap {FF01 -> I7}, lI5|HFF01|N renders "[5, 7]".
C9_NilTailAddsNothing ==
    (Decoded /\ call_depth = 0 /\ IsNilTerminatedList(term) /\ result.status = "ok") =>
        /\ result.s =
             "[" \o Join(SubSeq(TopRenderings, 1, Len(TopRenderings) - 1), ", ") \o "]"
        /\ (term = Chars("lI5|HFF01|N") /\ DOMAIN AddressMap = {"FF01"})
              => result.s = "[5, 7]"

\* the term is a list whose last element is a heap reference that is not in
\* the AddressMap
HasUnresolvedTail(data) ==
    /\ data # << >>
    /\ data[1] = "l"
    /\ Len(ListElements(data)) >= 2
    /\ LET tail == ListElements(data)[Len(ListElements(data))]
       IN  /\ tail # << >>
           /\ tail[1] = "H"
           /\ Str(Tail(tail)) \notin DOMAIN AddressMap

\* C10: a list whose tail is a heap reference absent from the AddressMap,
\* decoded from depth 0, returns a rendering, not an error, and the rendering
\* carries the marker "< heap truncated >".
C10_UnresolvedTailTruncates ==
    (Decoded /\ call_depth = 0 /\ HasUnresolvedTail(term)) =>
        /\ result.status = "ok"
        /\ Occurrences(result.s, "< heap truncated >") >= 1

\* the BinaryIndex of the decoder
BinaryIndex == crash_dump.visited_binaries

\* the numbers of a sub-binary term Ys<addr>:<off>:<sz>
SubBinaryParts(data) == Split(SubSeq(data, 3, Len(data)), ":")

\* the term is Ys<addr>:<off>:<sz> with addr in the BinaryIndex and
\* off + sz greater than the length of the binary
IsSubBinaryOutOfBounds(data) ==
    /\ Len(data) >= 2
    /\ data[1] = "Y"
    /\ data[2] = "s"
    /\ Len(SubBinaryParts(data)) = 3
    /\ \A i \in 1..3 : from_str_radix(SubBinaryParts(data)[i]).status = "ok"
    /\ ToHex(from_str_radix(SubBinaryParts(data)[1]).v, HexDigitsUpper) \in DOMAIN BinaryIndex
    /\ from_str_radix(SubBinaryParts(data)[2]).v + from_str_radix(SubBinaryParts(data)[3]).v
          > BinaryIndex[ToHex(from_str_radix(SubBinaryParts(data)[1]).v, HexDigitsUpper)]

\* C11: a sub-binary Ys<addr>:<off>:<sz> with addr in the BinaryIndex and
\* off + sz beyond the length of the binary, decoded below the depth cap, is
\* rendered successfully with an out-of-bounds marker; it is not an error
\* (an error of an element is the error of the tuple or list around it).
C11_OutOfBoundsIsRendered ==
    (Decoded /\ call_depth = 0) =>
        \A i \in 1..Len(result.calls) :
            (/\ IsSubBinaryOutOfBounds(result.calls[i].data)
             /\ result.calls[i].depth <= MAX_DEPTH_PARSE_DATATYPE)
                => /\ result.calls[i].status = "ok"
                   /\ Occurrences(result.calls[i].s, "out of bounds") >= 1

-----------------------------------------------------------------------------
(* The typed records of proc_stack and proc_messages sections.             *)

\* the end of the longest run of characters of cls in s from position i
SpanIn(s, i, cls) ==
    CHOOSE j \in i..(Len(s) + 1) :
        /\ \A k \in i..(j - 1) : s[k] \in cls
        /\ (j = Len(s) + 1 \/ s[j] \notin cls)

\* the end of the longest run of characters other than stop in s from i
SpanNotIn(s, i, stop) ==
    CHOOSE j \in i..(Len(s) + 1) :
        /\ \A k \in i..(j - 1) : s[k] # stop
        /\ (j = Len(s) + 1 \/ s[j] = stop)

HexClass == {HexDigits[i] : i \in 1..16} \cup {HexDigitsUpper[i] : i \in 1..16}
DigitClass == {Digits[i] : i \in 1..10}
SpaceClass == {" ", "\n", "\t", "\r"}

\* s has the literal lit at position i
HasAt(s, i, lit) == i + Len(lit) - 1 <= Len(s) /\ SubSeq(s, i, i + Len(lit) - 1) = lit

NoMatch == [ok |-> FALSE]

\* 0x[0-9A-Fa-f]+ at position i: the end of the match, or 0
HexWordEnd(s, i) ==
    IF HasAt(s, i, <<"0", "x">>) /\ SpanIn(s, i + 2, HexClass) > i + 2
    THEN SpanIn(s, i + 2, HexClass) ELSE 0

\* the end of (?:Return addr|Catch) at position i, or 0
KindEnd(s, i) ==
    IF HasAt(s, i, Chars("Return addr")) THEN i + 11
    ELSE IF HasAt(s, i, Chars("Catch")) THEN i + 5
    ELSE 0

\* \s+ then 0x[0-9A-Fa-f]+ then \s+ then "(" from position i, where the
\* kind of the frame has ended
ReturnAddrAt(s, address, i) ==
    LET a == SpanIn(s, i, SpaceClass)
        b == HexWordEnd(s, a)
        c == SpanIn(s, b, SpaceClass)
    IN  IF a > i /\ b > 0 /\ c > b /\ HasAt(s, c, <<"(">>)
        THEN [ok |-> TRUE, address |-> address, retaddr |-> Str(SubSeq(s, a, b - 1)),
              next |-> c + 1]
        ELSE NoMatch

\* the prefix the two expressions share:
\* ^(0x[0-9A-Fa-f]+):S(?:Return addr|Catch)\s+(0x[0-9A-Fa-f]+)\s+\(
FrameHead(s) ==
    LET a == HexWordEnd(s, 1)
    IN  IF a > 0 /\ HasAt(s, a, <<":", "S">>) /\ KindEnd(s, a + 2) > 0
        THEN ReturnAddrAt(s, Str(SubSeq(s, 1, a - 1)), KindEnd(s, a + 2))
        ELSE NoMatch

\* re_no_module.captures(line): ...\((<[^>]+>)\)
re_no_module(s) ==
    LET h == FrameHead(s)
    IN  IF ~h.ok \/ ~HasAt(s, h.next, <<"<">>) THEN NoMatch
        ELSE LET e == SpanNotIn(s, h.next + 1, ">")
             IN  IF e > h.next + 1 /\ HasAt(s, e, <<">", ")">>)
                 THEN [ok |-> TRUE, address |-> h.address, retaddr |-> h.retaddr,
                       function |-> Str(SubSeq(s, h.next, e))]
                 ELSE NoMatch

\* /(\d+)\s*\+\s*(\d+)\) from position i, where the function name has ended
ArityOffsetAt(s, i) ==
    LET a == SpanIn(s, i + 1, DigitClass)
        b == SpanIn(s, a, SpaceClass)
        c == SpanIn(s, b + 1, SpaceClass)
        d == SpanIn(s, c, DigitClass)
    IN  IF /\ HasAt(s, i, <<"/">>)
           /\ a > i + 1
           /\ HasAt(s, b, <<"+">>)
           /\ d > c
           /\ HasAt(s, d, <<")">>)
        THEN [ok |-> TRUE, arity |-> DecValue(SubSeq(s, i + 1, a - 1)),
              offset |-> DecValue(SubSeq(s, c, d - 1))]
        ELSE NoMatch

\* re_func_info.captures(line): ...\(([^:]+):([^/]+)/(\d+)\s*\+\s*(\d+)\)
re_func_info(s) ==
    LET h == FrameHead(s)
    IN  IF ~h.ok THEN NoMatch
        ELSE LET m == SpanNotIn(s, h.next, ":")
                 f == SpanNotIn(s, m + 1, "/")
             IN  IF /\ m > h.next
                    /\ HasAt(s, m, <<":">>)
                    /\ f > m + 1
                    /\ ArityOffsetAt(s, f).ok
                 THEN [ok |-> TRUE, address |-> h.address, retaddr |-> h.retaddr,
                       module |-> Str(SubSeq(s, h.next, m - 1)),
                       function |-> Str(SubSeq(s, m + 1, f - 1)),
                       arity |-> ArityOffsetAt(s, f).arity,
                       offset |-> ArityOffsetAt(s, f).offset]
                 ELSE NoMatch

StackFrame(address, return_addr, function, module, offset, arity, variables) ==
    [address |-> address, return_addr |-> return_addr, function |-> function,
     module |-> module, offset |-> offset, arity |-> arity, variables |-> variables]

\* the locals of ProcStackInfo::from_generic_section before its loop
StackLoopStart ==
    [total_frames |-> << >>, current_frame_args |-> << >>,
     frame_address |-> "", return_addr |-> "", function |-> "", module |-> "",
     offset |-> 0, arity |-> 0,
     current_frame |-> StackFrame("", "", "", "", 0, 0, << >>)]

\* the locals after a line that starts with "0x": the fields a match sets,
\* the others as the lines before left them
FrameFields(st, line) ==
    IF re_no_module(line).ok
    THEN [st EXCEPT !.frame_address = re_no_module(line).address,
                    !.return_addr = re_no_module(line).retaddr,
                    !.function = re_no_module(line).function]
    ELSE IF re_func_info(line).ok
    THEN [st EXCEPT !.frame_address = re_func_info(line).address,
                    !.return_addr = re_func_info(line).retaddr,
                    !.function = re_func_info(line).function,
                    !.module = re_func_info(line).module,
                    !.arity = re_func_info(line).arity,
                    !.offset = re_func_info(line).offset]
    ELSE st

\* the frame built from the locals, with no variables yet
FrameOfFields(st) ==
    [st EXCEPT !.current_frame =
        StackFrame(st.frame_address, st.return_addr, st.function, st.module,
                   st.offset, st.arity, << >>)]

\* one turn of a loop that never empties current_frame_args
StackLineKeepsArgs(st, line) ==
    IF StartsWith(line, <<"y">>)
    THEN IF Len(SplitN2(line, <<":">>)) = 2
         THEN [st EXCEPT !.current_frame_args = Append(@, Trim(SplitN2(line, <<":">>)[2]))]
         ELSE st
    ELSE IF StartsWith(line, <<"0", "x">>)
    THEN FrameOfFields(FrameFields(
            [st EXCEPT !.total_frames =
                          Append(@, [st.current_frame EXCEPT
                                        !.variables = st.current_frame_args])],
            line))
    ELSE st

\* one turn of the loop
StackLine(st, line) ==
    IF StartsWith(line, <<"y">>)
    THEN IF Len(SplitN2(line, <<":">>)) = 2
         THEN [st EXCEPT !.current_frame_args = Append(@, Trim(SplitN2(line, <<":">>)[2]))]
         ELSE st
    ELSE IF StartsWith(line, <<"0", "x">>)
    THEN FrameOfFields(FrameFields(
            [st EXCEPT !.total_frames =
                          Append(@, [st.current_frame EXCEPT
                                        !.variables = st.current_frame_args]),
                       !.current_frame_args = << >>],
            line))
    ELSE st

RECURSIVE StackLoop(_, _)
StackLoop(st, raw_lines) ==
    IF raw_lines = << >> THEN st
    ELSE StackLoop(StackLine(st, raw_lines[1]), Tail(raw_lines))

\* ProcStackInfo::from_generic_section, unwrapped by parse_section
ProcStackInfo_from_generic_section(section) ==
    IF section.tag # "proc_stack" \/ section.id = None THEN [kind |-> "panic"]
    ELSE [kind |-> "ProcStack",
          pid |-> section.id[1],
          frames |-> StackLoop(StackLoopStart, section.raw_lines).total_frames]

RECURSIVE MessagesOf(_, _)
\* the for_each of ProcMessagesInfo::from_generic_section
MessagesOf(messages, raw_lines) ==
    IF raw_lines = << >> THEN messages
    ELSE MessagesOf(
            IF Len(SplitN2(raw_lines[1], <<":">>)) = 2
            THEN MapInsert(messages, SplitN2(raw_lines[1], <<":">>)[1],
                           SplitN2(raw_lines[1], <<":">>)[2])
            ELSE messages,
            Tail(raw_lines))

\* ProcMessagesInfo::from_generic_section, unwrapped by parse_section
ProcMessagesInfo_from_generic_section(section) ==
    IF section.tag # TAG_PROC_MESSAGES \/ section.id = None THEN [kind |-> "panic"]
    ELSE [kind |-> "ProcMessages",
          pid |-> section.id[1],
          messages |-> MessagesOf(<< >>, section.raw_lines)]

\* the DumpSection of parse_section with the records of ProcStack and
\* ProcMessages sections decoded
TypedSection(parsed) ==
    CASE parsed.kind = "ProcStack" -> ProcStackInfo_from_generic_section(parsed.section)
      [] parsed.kind = "ProcMessages" -> ProcMessagesInfo_from_generic_section(parsed.section)
      [] OTHER -> parsed

-----------------------------------------------------------------------------
(* The display queries: CrashDump::load_proc_heap, load_proc_stack and     *)
(* load_proc_message_queue, and CDParser::get_heap_info, get_stack_info    *)
(* and get_message_queue_info.  A Text is its status and its lines, a line *)
(* the sequence of the contents of its spans.                              *)

TextOk(lines) == [status |-> "ok", lines |-> lines]
TextErr == [status |-> "err", lines |-> << >>]
TextPanic == [status |-> "panic", lines |-> << >>]

\* text.lines.push(line), unless the query has panicked before
PushLine(t, line) == IF t.status = "ok" THEN TextOk(Append(t.lines, line)) ELSE t

\* the line load_proc_heap shows of a raw line: address and rendering, address
\* and error, or the line itself
HeapLine(t, parts, line, parsed_res) ==
    IF Len(parts) # 2 THEN PushLine(t, <<Str(line)>>)
    ELSE IF parsed_res.status = "panic" THEN TextPanic
    ELSE PushLine(t, <<Str(parts[1]), " - ", parsed_res.s>>)

RECURSIVE HeapLines(_, _, _)
HeapLines(self, t, raw_lines) ==
    IF raw_lines = << >> THEN t
    ELSE HeapLines(self,
            HeapLine(t, SplitN2(raw_lines[1], <<":">>), raw_lines[1],
                     IF Len(SplitN2(raw_lines[1], <<":">>)) = 2
                     THEN parse_datatype(self, SplitN2(raw_lines[1], <<":">>)[2], 0)
                     ELSE NoResult),
            Tail(raw_lines))

\* the match of load_proc_heap on the parsed section
HeapText(self, parsed) ==
    CASE parsed.kind = "Generic" -> HeapLines(self, TextOk(<< >>), parsed.section.raw_lines)
      [] parsed.kind = "Err" -> TextErr
      [] parsed.kind = "panic" -> TextPanic
      [] OTHER -> TextOk(<< >>)

load_proc_heap(self, index_row, f) ==
    HeapText(self, TypedSection(parse_section(load_section(index_row, f))))

RECURSIVE Unwrapped(_, _, _)
\* parse_datatype(variable, 0).unwrap() on every variable of a frame: the
\* renderings, or a panic at the first one that is not Ok
Unwrapped(self, variables, done) ==
    IF variables = << >> THEN [panic |-> FALSE, items |-> done]
    ELSE IF parse_datatype(self, variables[1], 0).status # "ok" THEN [panic |-> TRUE, items |-> done]
    ELSE Unwrapped(self, Tail(variables),
                   Append(done, parse_datatype(self, variables[1], 0).s))

\* the line load_proc_stack makes of a frame
FrameLine(frame, current_line_variables) ==
    <<frame.address, " - M: ", frame.module, " F: ", frame.function, " A: (",
      Join(current_line_variables, ","), ")">>

RECURSIVE FrameLines(_, _, _, _)
\* the for_each of load_proc_stack; addr is the address of the line pushed last
FrameLines(self, t, addr, frames) ==
    IF frames = << >> THEN t
    ELSE IF Unwrapped(self, frames[1].variables, << >>).panic THEN TextPanic
    ELSE IF addr # frames[1].address
    THEN FrameLines(self,
            PushLine(t, FrameLine(frames[1],
                                  Unwrapped(self, frames[1].variables, << >>).items)),
            frames[1].address, Tail(frames))
    ELSE FrameLines(self, t, addr, Tail(frames))

\* the if let of load_proc_stack on the parsed section
StackText(self, parsed) ==
    CASE parsed.kind = "ProcStack" -> FrameLines(self, TextOk(<< >>), "", parsed.frames)
      [] parsed.kind = "panic" -> TextPanic
      [] OTHER -> TextOk(<< >>)

load_proc_stack(self, index_row, f) ==
    StackText(self, TypedSection(parse_section(load_section(index_row, f))))

\* the line load_proc_message_queue makes of a message
MessageLine(t, message_addr, message_val) ==
    IF message_addr.status # "ok" \/ message_val.status # "ok" THEN TextPanic
    ELSE PushLine(t, <<message_addr.s, " - ", message_val.s>>)

RECURSIVE MessageLines(_, _, _, _)
\* the for_each of load_proc_message_queue over the messages, taken in the
\* order the HashMap yields them
MessageLines(self, t, messages, order) ==
    IF order = << >> \/ t.status # "ok" THEN t
    ELSE MessageLines(self,
            MessageLine(t, parse_datatype(self, order[1], 0),
                        parse_datatype(self, messages[order[1]], 0)),
            messages, Tail(order))

\* the orders a HashMap may yield its keys in
Orders(keys) ==
    {order \in [1..Cardinality(keys) -> keys] :
        \A i, j \in 1..Cardinality(keys) : i # j => order[i] # order[j]}

\* the if let of load_proc_message_queue on the parsed section, for every
\* order of the messages
MessageTexts(self, parsed) ==
    CASE parsed.kind = "ProcMessages" ->
            {MessageLines(self, TextOk(<< >>), parsed.messages, order) :
                order \in Orders(DOMAIN parsed.messages)}
      [] parsed.kind = "panic" -> {TextPanic}
      [] OTHER -> {TextErr}

\* the Texts load_proc_message_queue may return
load_proc_message_queue(self, index_row, f) ==
    MessageTexts(self, TypedSection(parse_section(load_section(index_row, f))))

\* the entry of id in a map of InfoOrIndex is an Index
IsIndex(map, id) == id \in DOMAIN map /\ "index" \in DOMAIN map[id]

get_heap_info(self, f, id) ==
    IF IsIndex(self.processes_heap, id)
    THEN load_proc_heap(self, self.processes_heap[id].index, f)
    ELSE TextOk(<< >>)

get_stack_info(self, f, id) ==
    IF IsIndex(self.processes_stack, id)
    THEN load_proc_stack(self, self.processes_stack[id].index, f)
    ELSE TextOk(<< >>)

get_message_queue_info(self, f, id) ==
    IF IsIndex(self.processes_messages, id)
    THEN load_proc_message_queue(self, self.processes_messages[id].index, f)
    ELSE {TextOk(<< >>)}

-----------------------------------------------------------------------------
(* The consumer threads of CrashDump::from_index_map, the main loop that   *)
(* feeds them, and the queries made of the CrashDump it returns.           *)

num_consumers == 20

\* the sections of the dump files handed to from_index_map, by their lines
Sections ==
    {<<"=proc:P1", "Name: a", "Memory: 4">>,
     <<"=proc_heap:P1", "A:I5", "B:HA">>,
     <<"=proc_heap:P2", "A:I7", "C", "E:Y", "F: I1">>,
     <<"=proc_stack:P1", "y0:I5", "0x1:SReturn addr 0x2 (m:f/1 + 8)", "y0:I7", "y1:N",
       "0x3:SCatch 0x4 (<t>)", "y0:I9", "0x5:SReturn addr 0x6 (x)", "y0:I2",
       "0x7:SCatch 0x8 (<u>)", "y0:I4">>,
     <<"=proc_stack:P2", "0x1:SReturn addr 0x2 (m:f/1 + 8)", "y0:I", "0x3:SCatch 0x4 (<t>)">>,
     <<"=proc_messages:P1", "I1:N", "I2:N", "I1:I5">>,
     <<"=proc_messages:P2", "I2:N", "I:N">>,
     <<"=literals", "A:I3">>,
     <<"=persistent_terms", "D|I8">>,
     <<"=memory", "total: 1">>}

MaxSections == 2

\* the sequences of up to MaxSections different sections
SectionSeqs ==
    UNION {{ss \in [1..n -> Sections] : \A i, j \in 1..n : i # j => ss[i] # ss[j]} :
              n \in 0..MaxSections}

SectionText(lines) == Concat([i \in 1..Len(lines) |-> Chars(lines[i])])

RECURSIVE SectionsText(_)
SectionsText(ss) ==
    IF ss = << >> THEN << >> ELSE SectionText(ss[1]) \o SectionsText(Tail(ss))

\* a dump file: the preamble, then the sections
BuildFile(ss) == Concat(<<HdrPreamble, PreambleBody>>) \o SectionsText(ss)

BuildFiles == {BuildFile(ss) : ss \in SectionSeqs}

\* the ids the queries are made for
QueryIds == {"P1", "P2", "P3"}

InitBuild ==
    /\ file \in BuildFiles
    /\ pc = "search"
    /\ scan_pos = 0
    /\ sink_matches = << >>
    /\ index_map = << >>
    /\ crash_dump = CrashDumpNew
    /\ term = NoTerm
    /\ call_depth = 0
    /\ result = NoResult
    /\ NotBuilding
    /\ NoView

\* tx.send((tag, id, index_row)) for the rows of a kind, the ids in the
\* order the HashMap yields them
Sends(im, tag, order) ==
    [i \in 1..Len(order) |->
        [tag |-> tag, id |-> order[i], index_row |-> KeyedRows(im, tag)[order[i]]]]

\* what the main loop may send: the rows of Proc and the rows of ProcHeap,
\* either kind first
SendOrders(im) ==
    UNION {{Sends(im, "Proc", p) \o Sends(im, "ProcHeap", h),
            Sends(im, "ProcHeap", h) \o Sends(im, "Proc", p)} :
              p \in Orders(DOMAIN KeyedRows(im, "Proc")),
              h \in Orders(DOMAIN KeyedRows(im, "ProcHeap"))}

\* what the main loop has sent when the section of another kind makes it
\* panic: the rows of the kinds the HashMap yielded before that kind
SentBeforePanic(im) ==
    {SelectSeq(s, LAMBDA m : m.tag \in done) :
        s \in SendOrders(im), done \in SUBSET {"Proc", "ProcHeap"}}

\* from_index_map up to drop(tx): the consumers are spawned, the main loop
\* fills the CrashDump and sends the Proc and ProcHeap rows.  The main loop
\* and the consumers write different data, so the consumers' steps are taken
\* after it.  A panic of the main loop ends the program with the consumers
\* in it, here before they have received anything.
from_index_map_send ==
    /\ pc = "indexed"
    /\ IF \E p \in ParsedOnMainThread(index_map, file) : p.kind = "panic"
       THEN /\ pc' = "panic in from_index_map"
            /\ sent' \in SentBeforePanic(index_map)
            /\ running' = num_consumers
            /\ UNCHANGED <<crash_dump, received, busy, addrs>>
       ELSE /\ pc' = "joining"
            /\ \E preamble \in PreambleChoices(index_map, file), literals_first \in BOOLEAN :
                 crash_dump' =
                    [CrashDumpNew EXCEPT
                        !.preamble = preamble,
                        !.memory = MemoryAfter(index_map, file),
                        !.processes_heap = IndexEntries(index_map, "ProcHeap"),
                        !.processes_stack = IndexEntries(index_map, "ProcStack"),
                        !.processes_messages = IndexEntries(index_map, "ProcMessages"),
                        !.visited_binaries = BinaryLengths(index_map),
                        !.all_heap_addresses =
                            AddressesAfter(index_map, file, literals_first)]
            /\ sent' \in SendOrders(index_map)
            /\ running' = num_consumers
            /\ UNCHANGED <<received, busy, addrs>>
    /\ UNCHANGED <<file, scan_pos, sink_matches, index_map, term, call_depth, result, view_vars>>

\* the consumers that wait in rx.recv()
Idle == running - Cardinality(busy)

\* the consumer threads live while the program does: until from_index_map
\* or a later call panics
Alive == pc \in {"joining", "built"}

\* the lines a consumer has to insert for a message: those of a ProcHeap
\* section; the Proc arm parses the section and inserts nothing
LinesToInsert(msg, f) ==
    IF /\ msg.tag = "ProcHeap"
       /\ parse_section(load_section(msg.index_row, f)).kind = "Generic"
    THEN parse_section(load_section(msg.index_row, f)).section.raw_lines
    ELSE << >>

\* a consumer receives the next message, loads and parses its section
consumer_recv ==
    /\ Alive
    /\ Idle > 0
    /\ received < Len(sent)
    /\ received' = received + 1
    /\ busy' =
          IF LinesToInsert(sent[received + 1], file) = << >> THEN busy
          ELSE busy \cup {[n |-> received + 1,
                           lines |-> LinesToInsert(sent[received + 1], file)]}
    /\ UNCHANGED <<file, pc, scan_pos, sink_matches, index_map, crash_dump, term,
                   call_depth, result, sent, running, addrs, view_vars>>

\* the consumer is done with a line: back to rx.recv() after the last one
LineDone(job) ==
    IF Len(job.lines) = 1 THEN busy \ {job}
    ELSE (busy \ {job}) \cup {[job EXCEPT !.lines = Tail(@)]}

\* a consumer handles the next line of its section: addrs.insert when the
\* line splits in two at ':'
consumer_insert ==
    /\ Alive
    /\ \E job \in busy :
         /\ busy' = LineDone(job)
         /\ addrs' =
               IF Len(SplitN2(job.lines[1], <<":">>)) = 2
               THEN MapInsert(addrs, Str(SplitN2(job.lines[1], <<":">>)[1]),
                              SplitN2(job.lines[1], <<":">>)[2])
               ELSE addrs
    /\ UNCHANGED <<file, pc, scan_pos, sink_matches, index_map, crash_dump, term,
                   call_depth, result, sent, received, running, view_vars>>

\* rx.recv() fails on the empty channel whose sender was dropped: the
\* consumer ends
consumer_end ==
    /\ Alive
    /\ received = Len(sent)
    /\ Idle > 0
    /\ running' = running - 1
    /\ UNCHANGED <<file, pc, scan_pos, sink_matches, index_map, crash_dump, term,
                   call_depth, result, sent, received, busy, addrs, view_vars>>

\* the return does not wait for the consumers
JoinedNone == running >= 0

\* every handle.join() has returned
Joined == running = 0

\* from_index_map returns the CrashDump
from_index_map_join ==
    /\ pc = "joining"
    /\ Joined
    /\ pc' = "built"
    /\ UNCHANGED <<file, scan_pos, sink_matches, index_map, crash_dump, term,
                   call_depth, result, build_vars, view_vars>>

\* what a query leaves: its Text, and a panic ends the program
Queried(name, id, t) ==
    /\ asked' = [name |-> name, id |-> id]
    /\ text' = t
    /\ pc' = IF t.status = "panic" THEN "panic in " \o name ELSE pc
    /\ UNCHANGED <<file, scan_pos, sink_matches, index_map, crash_dump, term,
                   call_depth, result, build_vars, ancestor_map, ui_vars>>

GetHeapInfo ==
    /\ pc = "built"
    /\ \E id \in QueryIds : Queried("get_heap_info", id, get_heap_info(crash_dump, file, id))

GetStackInfo ==
    /\ pc = "built"
    /\ \E id \in QueryIds : Queried("get_stack_info", id, get_stack_info(crash_dump, file, id))

GetMessageQueueInfo ==
    /\ pc = "built"
    /\ \E id \in QueryIds :
         \E t \in get_message_queue_info(crash_dump, file, id) :
            Queried("get_message_queue_info", id, t)

NextBuild ==
    \/ Matched
    \/ build_index
    \/ from_index_map_send
    \/ consumer_recv
    \/ consumer_insert
    \/ consumer_end
    \/ from_index_map_join
    \/ GetHeapInfo
    \/ GetStackInfo
    \/ GetMessageQueueInfo

SpecBuild == InitBuild /\ [][NextBuild]_vars

-----------------------------------------------------------------------------
(* Claims about the display queries.                                       *)

\* C12: get_heap_info, get_stack_info and get_message_queue_info never
\* abort on a term that violates its grammar: the offending item is rendered
\* as an error string and the rest of the section is still rendered.  Here:
\* no query ends in a panic.
C12_QueriesNeverAbort ==
    pc \notin {"panic in get_heap_info", "panic in get_stack_info",
               "panic in get_message_queue_info"}

\* the lines below the header of the section an index entry points to
BodyOf(entry) == Tail(Lines(load_section(entry.index, file)))

RECURSIVE AddrTermLines(_)
\* the ADDR:TERM lines among the lines, split at the first ':'
AddrTermLines(ls) ==
    IF ls = << >> THEN << >>
    ELSE IF Len(SplitN2(ls[1], <<":">>)) = 2
    THEN <<SplitN2(ls[1], <<":">>)>> \o AddrTermLines(Tail(ls))
    ELSE AddrTermLines(Tail(ls))

\* the addresses of the frame lines among the lines, in file order
FrameAddresses(ls) ==
    LET frame_lines == SelectSeq(ls, LAMBDA l : StartsWith(l, <<"0", "x">>))
    IN  [i \in 1..Len(frame_lines) |-> Str(SplitN2(frame_lines[i], <<":">>)[1])]

RECURSIVE IsSubsequence(_, _)
\* the elements of a appear in b in the same order
IsSubsequence(a, b) ==
    IF a = << >> THEN TRUE
    ELSE IF b = << >> THEN FALSE
    ELSE IF a[1] = b[1] THEN IsSubsequence(Tail(a), Tail(b))
    ELSE IsSubsequence(a, Tail(b))

\* a query of this name for an id that has a section has returned a Text
Answered(name, map) ==
    /\ pc = "built"
    /\ asked.name = name
    /\ text.status = "ok"
    /\ IsIndex(map, asked.id)

\* C13: the frames of a ProcStack and the entries of a ProcMessages queue
\* are shown in the file order of their lines, and every ADDR:TERM line of a
\* proc_messages section has its own entry: as many entries as lines, the
\* i-th entry made of the i-th line.
C13_FileOrderOneEntryPerLine ==
    /\ Answered("get_stack_info", crash_dump.processes_stack) =>
          IsSubsequence([i \in 1..Len(text.lines) |-> text.lines[i][1]],
                        FrameAddresses(BodyOf(crash_dump.processes_stack[asked.id])))
    /\ Answered("get_message_queue_info", crash_dump.processes_messages) =>
          LET entries == AddrTermLines(BodyOf(crash_dump.processes_messages[asked.id]))
          IN  /\ Len(text.lines) = Len(entries)
              /\ \A i \in 1..Len(entries) :
                    /\ text.lines[i][1] = parse_datatype(crash_dump, entries[i][1], 0).s
                    /\ text.lines[i][3] = parse_datatype(crash_dump, entries[i][2], 0).s

-----------------------------------------------------------------------------
(* Claims about the construction of the CrashDump by from_index_map.       *)

\* from_index_map has returned Ok(crash_dump)
Returned_from_index_map == pc = "built"

RECURSIVE AddressesInOrder(_, _, _)
\* the addresses the consumers insert when the messages are handled one
\* after the other, in the order they were sent
AddressesInOrder(addresses, msgs, f) ==
    IF msgs = << >> THEN addresses
    ELSE AddressesInOrder(InsertAddressLines(addresses, LinesToInsert(msgs[1], f), ":"),
                          Tail(msgs), f)

C18_ProcessesHoldEveryProc ==
    Returned_from_index_map =>
        DOMAIN crash_dump.processes = DOMAIN KeyedRows(index_map, "Proc")

\* the addresses of the lines of the sections of a kind the index has, split
\* at the first delim
SectionAddresses(rows, delim) ==
    UNION {{Str(SplitN2(l, <<delim>>)[1]) :
                l \in {x \in {Tail(Lines(load_section(r, file)))[i] :
                                i \in 1..Len(Tail(Lines(load_section(r, file))))} :
                          Len(SplitN2(x, <<delim>>)) = 2}} :
              r \in rows}

\* the rows of a kind, keyed or listed
RowsOf(tag) ==
    {KeyedRows(index_map, tag)[id] : id \in DOMAIN KeyedRows(index_map, tag)}
        \cup {ListRows(index_map, tag)[i] : i \in 1..Len(ListRows(index_map, tag))}

\* C19: when from_index_map returns, all_heap_addresses has a binding for
\* every ADDR:TERM line of every ProcHeap section and of the Literals
\* section, and for every ADDR|TERM line of the PersistentTerms section.
C19_EveryAddressLineIsBound ==
    Returned_from_index_map =>
        /\ SectionAddresses(RowsOf("ProcHeap"), ":") \subseteq DOMAIN AddressMap
        /\ SectionAddresses(RowsOf("Literals"), ":") \subseteq DOMAIN AddressMap
        /\ SectionAddresses(RowsOf("PersistentTerms"), "|") \subseteq DOMAIN AddressMap

\* C20: the AddressMap and the BinaryIndex are written only during
\* from_index_map: once it has returned no consumer thread is running, and
\* no call of get_heap_info, get_stack_info or get_message_queue_info changes
\* a field of the CrashDump or a binding the consumers inserted.
C20_FrozenAfterReturn ==
    /\ [](Returned_from_index_map => (running = 0 /\ busy = {}))
    /\ [][Returned_from_index_map => (crash_dump' = crash_dump /\ addrs' = addrs)]_vars

\* queries were made of a CrashDump built with the help of the consumers
C20_QueriedAfterReturn ==
    /\ Returned_from_index_map
    /\ asked.name = "get_heap_info"
    /\ Len(text.lines) >= 2
    /\ addrs # << >>
    /\ AddressMap # << >>

-----------------------------------------------------------------------------
(* Process groups: ProcInfo::from_generic_section,                         *)
(* CDParser::create_descendants_table and CDParser::calculate_group_info.  *)

\* data.get(key).and_then(|s| s.parse::<i64>().ok()).unwrap_or(0)
NumberOr0(data, key) ==
    IF key \in DOMAIN data THEN UnwrapOr(ParseSigned(data[key]), 0) ELSE 0

\* data.get(key).cloned().filter(|s| !s.is_empty())
NonEmpty(data, key) ==
    IF key \in DOMAIN data /\ data[key] # << >> THEN Some(Str(data[key])) ELSE None

\* data.get(key).cloned().unwrap_or_default()
StringOrDefault(data, key) == IF key \in DOMAIN data THEN Str(data[key]) ELSE ""

\* the number after the last '=' of the first raw line, else 0
ArityOf(raw_lines) ==
    IF raw_lines = << >> THEN 0
    ELSE UnwrapOr(ParseSigned(Trim(Split(raw_lines[1], "=")[Len(Split(raw_lines[1], "="))])), 0)

\* ProcInfo::from_generic_section, without link_list, internal_state and
\* program_counter, which nothing modelled here reads
ProcInfo_from_generic_section(section) ==
    [pid |-> UnwrapOr(section.id, ""),
     state |-> StringOrDefault(section.data, "State"),
     name |-> Some(StringOrDefault(section.data, "Name")),
     spawned_as |-> NonEmpty(section.data, "Spawned as"),
     spawned_by |-> NonEmpty(section.data, "Spawned by"),
     message_queue_length |-> NumberOr0(section.data, "Message queue length"),
     number_of_heap_fragments |-> NumberOr0(section.data, "Number of heap fragments"),
     heap_fragment_data |-> NumberOr0(section.data, "Heap fragment data"),
     reductions |-> NumberOr0(section.data, "Reductions"),
     stack_heap |-> NumberOr0(section.data, "Stack+heap"),
     old_heap |-> NumberOr0(section.data, "OldHeap"),
     heap_unused |-> NumberOr0(section.data, "Heap unused"),
     old_heap_unused |-> NumberOr0(section.data, "OldHeap unused"),
     bin_vheap |-> NumberOr0(section.data, "BinVHeap"),
     old_bin_vheap |-> NumberOr0(section.data, "OldBinVHeap"),
     memory |-> NumberOr0(section.data, "Memory"),
     bin_vheap_unused |-> NumberOr0(section.data, "BinVHeap unused"),
     old_bin_vheap_unused |-> NumberOr0(section.data, "OldBinVHeap unused"),
     total_bin_vheap |-> NumberOr0(section.data, "BinVHeap") + NumberOr0(section.data, "OldBinVHeap"),
     arity |-> ArityOf(section.raw_lines)]

\* InfoOrIndex::Info(info)
Info(info) == [info |-> info]

\* the entry of pid in a map of InfoOrIndex is an Info
IsInfo(map, pid) == pid \in DOMAIN map /\ "info" \in DOMAIN map[pid]

\* the pids of the Proc sections and the pid of a process no section is of
Pids == {"P1", "P2", "P3"}
MissingPid == "P9"

\* the sizes in the Proc section of a pid: different powers of two, so that
\* a sum tells which were added and how often
SizeLines ==
    [p \in Pids |->
        CASE p = "P1" -> <<"Memory: 1", "Stack+heap: 8", "OldHeap: 64">>
          [] p = "P2" -> <<"Memory: 2", "Stack+heap: 16", "BinVHeap: 128">>
          [] p = "P3" -> <<"Memory: 4", "Stack+heap: 32", "OldBinVHeap: 256">>]

\* the line of an attribute of a Proc section, none when the value is ""
AttributeLine(key, value) == IF value = "" THEN << >> ELSE <<key \o ": " \o value>>

\* the Proc section of a pid with a name ("" for none) and a parent ("" for
\* none)
ProcSection(p, name, parent) ==
    <<"=proc:" \o p>> \o AttributeLine("Name", name)
        \o AttributeLine("Spawned by", parent) \o SizeLines[p]

\* the ProcInfo parse_section decodes from the text of a Proc section
DecodedProc(lines) ==
    ProcInfo_from_generic_section(GenericSection_from_str(SectionText(lines)))

\* the process tables: for some of the pids, the Info of a Proc section
ProcessTables ==
    UNION {{[p \in ps |-> Info(DecodedProc(ProcSection(p, names[p], parents[p])))] :
               names \in [ps -> {"", "a"}],
               parents \in [ps -> Pids \cup {"", MissingPid}]} :
             ps \in SUBSET Pids}

InitGroups ==
    /\ crash_dump \in {[CrashDumpNew EXCEPT !.processes = t] : t \in ProcessTables}
    /\ pc = "parsed"
    /\ file = << >>
    /\ scan_pos = 0
    /\ sink_matches = << >>
    /\ index_map = << >>
    /\ term = NoTerm
    /\ call_depth = 0
    /\ result = NoResult
    /\ NotBuilding
    /\ NoView

Walked(ancestor) == [hang |-> FALSE, ancestor |-> ancestor]
WalkHangs == [hang |-> TRUE, ancestor |-> None]

RECURSIVE WalkUp(_, _, _)
\* the while let of create_descendants_table: up to the first ancestor that
\* has a name or is not in the table.  An entry that is no Info changes
\* nothing, and the loop does not end; neither does it on a cycle of
\* processes without a name (steps counts the turns left before one repeats)
WalkUp(all_processes_info, ancestor, steps) ==
    IF ancestor = None THEN Walked(None)
    ELSE IF ancestor[1] \notin DOMAIN all_processes_info THEN Walked(ancestor)
    ELSE IF ~IsInfo(all_processes_info, ancestor[1]) \/ steps = 0 THEN WalkHangs
    ELSE IF all_processes_info[ancestor[1]].info.name # None THEN Walked(ancestor)
    ELSE WalkUp(all_processes_info, all_processes_info[ancestor[1]].info.spawned_by,
                steps - 1)

\* where the walk from the process of pid ends
AncestorOf(all_processes_info, pid) ==
    WalkUp(all_processes_info, all_processes_info[pid].info.spawned_by,
           Cardinality(DOMAIN all_processes_info))

\* descendants.entry(ancestor_pid).or_insert_with(Vec::new).push(pid)
PushDescendant(descendants, ancestor_pid, pid) ==
    MapInsert(descendants, ancestor_pid,
              IF ancestor_pid \in DOMAIN descendants
              THEN Append(descendants[ancestor_pid], pid) ELSE <<pid>>)

RECURSIVE Descendants(_, _, _)
\* the for of create_descendants_table over the table, in the order the
\* DashMap yields its entries
Descendants(all_processes_info, order, descendants) ==
    IF order = << >> THEN descendants
    ELSE IF /\ IsInfo(all_processes_info, order[1])
            /\ AncestorOf(all_processes_info, order[1]).ancestor # None
    THEN Descendants(all_processes_info, Tail(order),
            PushDescendant(descendants, AncestorOf(all_processes_info, order[1]).ancestor[1],
                           order[1]))
    ELSE Descendants(all_processes_info, Tail(order), descendants)

\* a walk of create_descendants_table does not end
Hangs(all_processes_info) ==
    \E pid \in DOMAIN all_processes_info :
        IsInfo(all_processes_info, pid) /\ AncestorOf(all_processes_info, pid).hang

\* App::new: ret.ancestor_map = create_descendants_table(&ret.crash_dump.processes)
create_descendants_table ==
    /\ pc = "parsed"
    /\ IF Hangs(crash_dump.processes)
       THEN /\ pc' = "hang in create_descendants_table"
            /\ UNCHANGED ancestor_map
       ELSE /\ pc' = "ancestors"
            /\ \E order \in Orders(DOMAIN crash_dump.processes) :
                  ancestor_map' = Descendants(crash_dump.processes, order, << >>)
    /\ UNCHANGED <<file, scan_pos, sink_matches, index_map, crash_dump, term, call_depth,
                   result, build_vars, asked, text, ui_vars>>

\* group_info with the sizes of the process of pid added, if it is an Info
AddSizes(group_info, processes, pid) ==
    IF IsInfo(processes, pid)
    THEN [group_info EXCEPT
            !.total_heap_size =
                @ + processes[pid].info.old_bin_vheap + processes[pid].info.bin_vheap
                  + processes[pid].info.stack_heap + processes[pid].info.old_heap,
            !.total_memory_size = @ + processes[pid].info.memory]
    ELSE group_info

RECURSIVE AddChildren(_, _, _)
\* for child in children
AddChildren(group_info, processes, children) ==
    IF children = << >> THEN group_info
    ELSE AddChildren(AddSizes(group_info, processes, children[1]), processes, Tail(children))

\* group_info.name = pid_name.clone(), if the process is an Info with a name
WithName(group_info, processes, pid) ==
    IF IsInfo(processes, pid) /\ processes[pid].info.name # None
    THEN [group_info EXCEPT !.name = processes[pid].info.name[1]]
    ELSE group_info

\* the GroupInfo of a pid of the ancestor map
GroupInfo(pid, children, processes) ==
    WithName(
        AddSizes(
            AddChildren(
                [total_heap_size |-> 0, total_binary_size |-> 0, total_memory_size |-> 0,
                 pid |-> pid, name |-> "", children |-> children],
                processes, children),
            processes, pid),
        processes, pid)

\* CDParser::calculate_group_info
GroupInfoMap(ancestors, processes) ==
    [pid \in DOMAIN ancestors |-> GroupInfo(pid, ancestors[pid], processes)]

\* App::new: ret.crash_dump.group_info_map = calculate_group_info(..)
calculate_group_info ==
    /\ pc = "ancestors"
    /\ pc' = "grouped"
    /\ crash_dump' =
          [crash_dump EXCEPT !.group_info_map = GroupInfoMap(ancestor_map, crash_dump.processes)]
    /\ UNCHANGED <<file, scan_pos, sink_matches, index_map, term, call_depth, result,
                   build_vars, view_vars>>

NextGroups == create_descendants_table \/ calculate_group_info

SpecGroups == InitGroups /\ [][NextGroups]_vars

-----------------------------------------------------------------------------
(* Claims about the process groups.                                        *)

\* App::new has built the ancestor map and the group table
Grouped == pc = "grouped"

\* the process table and the group table of the CrashDump
Processes == crash_dump.processes
Groups == crash_dump.group_info_map

\* the process of pid has a name that is not empty
HasName(pid) ==
    /\ IsInfo(Processes, pid)
    /\ Processes[pid].info.name # None
    /\ Processes[pid].info.name[1] # ""

\* the children of the group of a root, as a set
ChildrenOf(root) == {Groups[root].children[i] : i \in 1..Len(Groups[root].children)}

\* C14: every process that has a name is the root of a group of the group
\* table and is among the children of that group, even when it spawned no
\* other process.
C14_NamedProcessIsRootOfItsGroup ==
    Grouped =>
        \A p \in DOMAIN Processes :
            HasName(p) => (p \in DOMAIN Groups /\ p \in ChildrenOf(p))

RECURSIVE RootFrom(_, _)
\* the ancestry root from a pid of a spawned_by chain on: the pid itself if
\* it has a name or is missing from the table, else the root from its
\* parent on; None when the chain ends without one or does not end
RootFrom(pid, steps) ==
    IF pid \notin DOMAIN Processes \/ HasName(pid) THEN Some(pid)
    ELSE IF steps = 0 \/ Processes[pid].info.spawned_by = None THEN None
    ELSE RootFrom(Processes[pid].info.spawned_by[1], steps - 1)

\* the ancestry root of a process that has spawned_by set
AncestryRoot(q) == RootFrom(Processes[q].info.spawned_by[1], Cardinality(DOMAIN Processes))

\* C15: every process q with spawned_by set is a child of the group of its
\* ancestry root (the first process up its spawned_by chain with a name that
\* is not empty, or the first pid missing from the table) and of no other
\* group.
C15_ChildOfAncestryRootOnly ==
    Grouped =>
        \A q \in DOMAIN Processes :
            (Processes[q].info.spawned_by # None /\ AncestryRoot(q) # None) =>
                /\ AncestryRoot(q)[1] \in DOMAIN Groups
                /\ \A g \in DOMAIN Groups : (q \in ChildrenOf(g)) <=> (g = AncestryRoot(q)[1])

MemoryOf(proc) == proc.memory
HeapOf(proc) == proc.old_bin_vheap + proc.bin_vheap + proc.stack_heap + proc.old_heap

\* the size of a kind of the process of pid, 0 if it is not in the table
SizeOf(pid, kind) ==
    IF ~IsInfo(Processes, pid) THEN 0
    ELSE IF kind = "memory" THEN MemoryOf(Processes[pid].info)
    ELSE HeapOf(Processes[pid].info)

RECURSIVE SumOver(_, _)
\* the sum of the sizes of a kind over the processes of the set pids
SumOver(pids, kind) ==
    IF pids = {} THEN 0
    ELSE LET p == CHOOSE x \in pids : TRUE
         IN  SizeOf(p, kind) + SumOver(pids \ {p}, kind)

\* the members of a group: its root and its children
Members(root) == {root} \cup ChildrenOf(root)

\* C16: for every group, total_memory_size is the sum of memory over the
\* members of the group (the root and its children), each counted once,
\* total_heap_size the sum of old_bin_vheap + bin_vheap + stack_heap +
\* old_heap over the same members, and total_binary_size is 0.
C16_TotalsCountEveryMemberOnce ==
    Grouped =>
        \A g \in DOMAIN Groups :
            /\ Groups[g].total_memory_size = SumOver(Members(g), "memory")
            /\ Groups[g].total_heap_size = SumOver(Members(g), "heap")
            /\ Groups[g].total_binary_size = 0

-----------------------------------------------------------------------------
(* More claims about the index.                                            *)

\* the byte range [RowStart, RowEnd) of an index row
RowStart(r) == UnwrapOr(ParseUnsigned(r.start), 0)
RowEnd(r) == RowStart(r) + UnwrapOr(ParseUnsigned(r.length), 0)

\* where the section of the i-th header ends: at the next header, or at the
\* end of the file
NextOffset(i) ==
    IF i < Len(sink_matches) THEN sink_matches[i + 1].offset ELSE Len(file)

\* no later header has the kind and the id of the i-th (its row is not
\* replaced in the map of its kind)
LastOfItsId(i) ==
    \A j \in (i + 1)..Len(sink_matches) :
        ~(/\ sink_matches[j].tag = sink_matches[i].tag
          /\ sink_matches[i].id # None
          /\ sink_matches[j].id = sink_matches[i].id)

C22_TypedFailureIsGeneric ==
    /\ pc # "panic in from_index_map"
    /\ IndexReturned =>
          \A p \in ParsedOnMainThread(index_map, file) : p.kind # "panic"

\* the kinds of section whose lines are repeating or not keyed
RawKinds == {"ProcStack", "ProcMessages", "ProcHeap", "Literals", "PersistentTerms"}

\* from_index_map has parsed the sections it and its consumers read
SectionsParsed == pc \in {"joining", "built"} /\ received = Len(sent)

\* from_str keeps every body line of the text as a raw line, in order
AllLinesRaw(s) ==
    /\ GenericSection_from_str(s).ok
    /\ GenericSection_from_str(s).raw_lines = Tail(Lines(s))
    /\ GenericSection_from_str(s).data = << >>

\* C23: GenericSection::from_str puts every body line of a proc_stack,
\* proc_messages, proc_heap, literals or persistent_terms section into
\* raw_lines, in order, whether or not the line contains ": "; no line of
\* such a section goes to the key-value map.
C23_EveryLineIsRaw ==
    SectionsParsed =>
        \A tag \in RawKinds : \A r \in RowsOf(tag) : AllLinesRaw(load_section(r, file))

-----------------------------------------------------------------------------
(* Claims about the frames of a decoded ProcStack.                         *)

\* get_stack_info was called for a process that has a proc_stack section,
\* and load_proc_stack has decoded the section
StackDecoded ==
    /\ pc \in {"built", "panic in get_stack_info"}
    /\ asked.name = "get_stack_info"
    /\ IsIndex(crash_dump.processes_stack, asked.id)

\* the lines of that section and the frames decoded from it
StackLines == BodyOf(crash_dump.processes_stack[asked.id])
Frames ==
    TypedSection(parse_section(
        load_section(crash_dump.processes_stack[asked.id].index, file))).frames

\* the positions of the 0x lines among the lines, in file order
FramePositions(ls) ==
    SelectSeq([i \in 1..Len(ls) |-> i], LAMBDA i : StartsWith(ls[i], <<"0", "x">>))

\* the address of a 0x line
AddressOf(line) == Str(SplitN2(line, <<":">>)[1])

\* C24: a decoded ProcStack has a frame for every 0x line of the section,
\* the last one included: as many frames as 0x lines, the k-th with the
\* address of the k-th 0x line that matches a frame pattern.
C24_FrameForEvery0xLine ==
    StackDecoded =>
        /\ Len(Frames) = Len(FramePositions(StackLines))
        /\ \A k \in 1..Len(FramePositions(StackLines)) :
              (re_no_module(StackLines[FramePositions(StackLines)[k]]).ok
                 \/ re_func_info(StackLines[FramePositions(StackLines)[k]]).ok)
                  => Frames[k].address = AddressOf(StackLines[FramePositions(StackLines)[k]])

\* the values of the y lines among the lines from position a to position b
YValues(ls, a, b) ==
    LET ys == SelectSeq(SubSeq(ls, a, b),
                        LAMBDA l : StartsWith(l, <<"y">>) /\ Len(SplitN2(l, <<":">>)) = 2)
    IN  [i \in 1..Len(ys) |-> Trim(SplitN2(ys[i], <<":">>)[2])]

\* the position of the k-th 0x line; 0 before the first, past the end after
\* the last
PositionOf(ls, k) ==
    IF k = 0 THEN 0
    ELSE IF k > Len(FramePositions(ls)) THEN Len(ls) + 1
    ELSE FramePositions(ls)[k]

\* the frame the k-th 0x line opens: the first frame of the loop is the one
\* open at the start of the section
OpenedAt(k) == Frames[k + 1]

\* C25 as claimed: the variables of the frame of a 0x line are the values of
\* the y lines between the previous 0x line (or the section start) and that
\* 0x line, in file order.
C25_VariablesPrecedeTheirFrameLine ==
    StackDecoded =>
        \A k \in 1..(Len(Frames) - 1) :
            OpenedAt(k).variables =
                YValues(StackLines, PositionOf(StackLines, k - 1) + 1,
                        PositionOf(StackLines, k) - 1)

\* C25: the variables of the frame of a 0x line are the values of the y
\* lines between that 0x line and the next 0x line, in file order.
C25_VariablesFollowTheirFrameLine ==
    StackDecoded =>
        \A k \in 1..(Len(Frames) - 1) :
            OpenedAt(k).variables =
                YValues(StackLines, PositionOf(StackLines, k) + 1,
                        PositionOf(StackLines, k + 1) - 1)

\* a stack of several frames, one of them with two variables
C25_FramesWithVariables ==
    /\ StackDecoded
    /\ Len(Frames) >= 3
    /\ Len(OpenedAt(1).variables) = 2
    /\ Len(OpenedAt(2).variables) = 1

\* the frame of the k-th 0x line was decoded through re_no_module
ModuleLess(k) == re_no_module(StackLines[PositionOf(StackLines, k)]).ok

\* the k-th 0x line matches neither pattern
Unmatched(k) ==
    /\ ~re_no_module(StackLines[PositionOf(StackLines, k)]).ok
    /\ ~re_func_info(StackLines[PositionOf(StackLines, k)]).ok

\* C28: a frame decoded through the module-less pattern has an empty
\* module and arity and offset 0, and the frame of a 0x line that matches
\* neither pattern has not the address, module or function of the frame
\* before it: no field of a frame is inherited from an earlier frame.
C28_NoFieldInherited ==
    StackDecoded =>
        \A k \in 1..(Len(Frames) - 1) :
            /\ ModuleLess(k) =>
                  /\ OpenedAt(k).module = ""
                  /\ OpenedAt(k).arity = 0
                  /\ OpenedAt(k).offset = 0
            /\ (Unmatched(k) /\ k > 1) =>
                  /\ OpenedAt(k).address # OpenedAt(k - 1).address
                  /\ OpenedAt(k).module = ""
                  /\ OpenedAt(k).function = ""

-----------------------------------------------------------------------------
(* create_descendants_table over every table of its parameter type.        *)

\* what an entry of a DashMap<String, InfoOrIndex<ProcInfo>> is: the Index
\* of a Proc section that was not decoded, or the Info of a process with or
\* without a name and with a parent ("" for none)
EntryChoices ==
    {<<"index", "">>} \cup ({"unnamed", "named"} \X (Pids \cup {""}))

\* the entry of a pid for a choice
TableEntry(p, choice) ==
    IF choice[1] = "index" THEN [index |-> IndexRow(TAG_PROC, p, 0, 8)]
    ELSE Info([DecodedProc(ProcSection(p, "a", choice[2])) EXCEPT
                 !.name = IF choice[1] = "named" THEN Some("a") ELSE None])

\* the tables create_descendants_table accepts, for some of the pids
AnyProcessTables ==
    UNION {{[p \in ps |-> TableEntry(p, choices[p])] : choices \in [ps -> EntryChoices]} :
             ps \in SUBSET Pids}

InitTables ==
    /\ crash_dump \in {[CrashDumpNew EXCEPT !.processes = t] : t \in AnyProcessTables}
    /\ pc = "parsed"
    /\ file = << >>
    /\ scan_pos = 0
    /\ sink_matches = << >>
    /\ index_map = << >>
    /\ term = NoTerm
    /\ call_depth = 0
    /\ result = NoResult
    /\ NotBuilding
    /\ NoView

SpecTables == InitTables /\ [][NextGroups]_vars

-----------------------------------------------------------------------------
(* Claims about the lengths of the binaries.                               *)

\* the number of bytes of the file up to and with the line feed that ends
\* the header line of a row (up to the end of the row if there is none)
HeaderLineEnd(r) ==
    LET feeds == {k \in (RowStart(r) + 1)..RowEnd(r) : file[k] = "\n"}
    IN  IF feeds = {} THEN RowEnd(r) ELSE CHOOSE k \in feeds : \A m \in feeds : k <= m

\* the bytes of the section of a row after its header line
PayloadLength(r) == RowEnd(r) - HeaderLineEnd(r)

\* C27: for every Binary section of the index, the BinaryIndex maps the id of
\* the section to the number of bytes of its payload, the bytes after the
\* =binary:<id> header line; that is the length a Ys term is checked against.
C27_BinaryIndexHoldsPayloadLength ==
    pc = "built" =>
        \A id \in DOMAIN KeyedRows(index_map, "Binary") :
            KeyedRows(index_map, "Binary")[id].id # None =>
                /\ id \in DOMAIN BinaryIndex
                /\ BinaryIndex[id] = PayloadLength(KeyedRows(index_map, "Binary")[id])

-----------------------------------------------------------------------------
(* The channel of from_index_map under a fair scheduler.                   *)

\* the raw lines of a section of the input: its lines after the header
\* that have no ": "
RawLinesOf(s) ==
    LET raw == SelectSeq(Tail(s),
                         LAMBDA l : \A i \in 1..(Len(l) - 1) : SubSeq(l, i, i + 1) # ": ")
    IN  [i \in 1..Len(raw) |-> Chars(raw[i])]

\* a step of consumer_recv, told by what it does to the channel: the next
\* message is taken, and a consumer may be at work on the lines of a section
Received ==
    /\ Alive
    /\ Idle > 0
    /\ received < Len(sent)
    /\ received' = received + 1
    /\ busy' \in {busy} \cup {busy \cup {[n |-> received + 1, lines |-> RawLinesOf(s)]} :
                                 s \in Sections}
    /\ UNCHANGED <<file, pc, scan_pos, sink_matches, index_map, crash_dump, term,
                   call_depth, result, sent, running, addrs, view_vars>>

\* every thread that can take a step takes one in the end: a consumer that
\* can receive, insert or end does, and so does the main thread at its joins
SpecBuildFair ==
    /\ SpecBuild
    /\ WF_vars(Received)
    /\ WF_vars(consumer_insert)
    /\ WF_vars(consumer_end)
    /\ WF_vars(from_index_map_join)

\* every message sent was received and no consumer is still at work on one
AllProcessed == received = Len(sent) /\ busy = {}

\* a step that receives takes exactly the next message of the channel, and
\* no consumer is at work on that message already
ReceivesOnce ==
    received' # received =>
        /\ received' = received + 1
        /\ \A job \in busy : job.n # received'
        /\ \A job \in busy' \ busy : job.n = received'

\* C29: every item sent on the channel is received and processed by exactly
\* one consumer; once the sender is dropped every consumer leaves its receive
\* loop, so that the joins complete; and from_index_map returns only after
\* every item of the queue was processed.
C29_EverySentItemIsProcessedOnce ==
    /\ [][ReceivesOnce]_vars
    /\ (sent # << >>) ~> AllProcessed
    /\ (pc = "joining") ~> (running = 0 /\ pc = "built")
    /\ [](pc = "built" => AllProcessed)

\* the same of the calls of from_index_map whose main loop reaches drop(tx)
ProcessedWhenMainLoopEnds ==
    /\ [][ReceivesOnce]_vars
    /\ (pc = "joining" /\ sent # << >>) ~> AllProcessed
    /\ (pc = "joining") ~> (running = 0 /\ pc = "built")
    /\ [](pc = "built" => AllProcessed)

-----------------------------------------------------------------------------
(* The key events of the terminal interface.                               *)

MaxRows == 2

\* self as usize
TabIndex(tab) == (CHOOSE i \in 1..Len(Tabs) : Tabs[i] = tab) - 1

\* SelectedTab::from_repr
from_repr(index) == IF index \in 0..(Len(Tabs) - 1) THEN Some(Tabs[index + 1]) ELSE None

\* SelectedTab::previous: current_index.saturating_sub(1)
previous(tab) ==
    UnwrapOr(from_repr(IF TabIndex(tab) = 0 THEN 0 ELSE TabIndex(tab) - 1), tab)

\* SelectedTab::next
next(tab) == UnwrapOr(from_repr(TabIndex(tab) + 1), tab)

\* the lists App::new may fill a tab with: the pids of some processes
RowLists == {[i \in 1..n |-> "P" \o ToString(i)] : n \in 0..MaxRows}

\* state.select(Some(0)) if the list of the tab is not empty
FirstRow(list) == IF list = << >> THEN None ELSE Some(0)

\* what App::new returns: the lists of the Process and the ProcessGroup tab
\* filled, the first row of each selected if there is one
InitKeys ==
    /\ pc = "events"
    /\ file = << >>
    /\ scan_pos = 0
    /\ sink_matches = << >>
    /\ index_map = << >>
    /\ crash_dump = CrashDumpNew
    /\ term = NoTerm
    /\ call_depth = 0
    /\ result = NoResult
    /\ NotBuilding
    /\ asked = [name |-> "", id |-> ""]
    /\ text = NoText
    /\ ancestor_map = << >>
    /\ selected_tab = "General"
    /\ \E processes \in RowLists, groups \in RowLists :
          /\ tab_lists = [tab \in AllTabs |->
                            CASE tab = "Process" -> processes
                              [] tab = "ProcessGroup" -> groups
                              [] OTHER -> << >>]
          /\ table_states = [tab \in AllTabs |->
                               CASE tab = "Process" -> FirstRow(processes)
                                 [] tab = "ProcessGroup" -> FirstRow(groups)
                                 [] OTHER -> None]
    /\ state = "Running"
    /\ process_view_state = "Stack"
    /\ key_event = NoKey

\* the key events: a code, with or without the Control key ("x" for a key
\* no arm matches)
KeyEvents ==
    {[code |-> c, modifiers |-> "NONE"] :
        c \in {"Esc", "q", "c", "i", "Right", "Left", "Down", "Up", "j", "s", "h", "m", "x"}}
        \cup {[code |-> "c", modifiers |-> "CONTROL"]}

\* the App as handle_key_events gets it, and whether it panics
TheApp ==
    [state |-> state, selected_tab |-> selected_tab, table_states |-> table_states,
     process_view_state |-> process_view_state, panicked |-> FALSE]

\* the row Down selects, for a list that is not empty
KeyDownNoWrap(selected, amount_items) == selected + 1

KeyDown(selected, amount_items) ==
    IF selected >= amount_items - 1 THEN 0 ELSE selected + 1

\* the row Up selects
KeyUp(selected, amount_items) ==
    IF selected > 0 THEN selected - 1 ELSE amount_items - 1

\* table_state.select(Some(row)) for the table of the selected tab
Select(app, row) == [app EXCEPT !.table_states[app.selected_tab] = Some(row)]

\* amount_items - 1 overflows on an empty list: a panic
Overflow(app) == [app EXCEPT !.panicked = TRUE]

\* the Down arm: nothing without a selected row
Down(app, lists) ==
    IF app.table_states[app.selected_tab] = None THEN app
    ELSE IF Len(lists[app.selected_tab]) = 0 THEN Overflow(app)
    ELSE Select(app, KeyDown(app.table_states[app.selected_tab][1],
                             Len(lists[app.selected_tab])))

\* the Up arm: amount_items - 1 is computed for row 0 only
Up(app, lists) ==
    IF app.table_states[app.selected_tab] = None THEN app
    ELSE IF /\ app.table_states[app.selected_tab][1] = 0
            /\ Len(lists[app.selected_tab]) = 0
    THEN Overflow(app)
    ELSE Select(app, KeyUp(app.table_states[app.selected_tab][1],
                           Len(lists[app.selected_tab])))

\* the arms Esc, q and Ctrl-C of both matches
IsQuit(key) == key.code \in {"Esc", "q"} \/ (key.code = "c" /\ key.modifiers = "CONTROL")

\* the arm of a key that sets the view of the Process tab
ViewOf(code) ==
    CASE code = "s" -> "Stack" [] code = "h" -> "Heap" [] code = "m" -> "MessageQueue"

\* handle_key_events: the match of the Inspect tab, whose other keys scroll
\* the inspector, and the match of the tabs with a table
handle_key_events(key, app, lists) ==
    IF IsQuit(key) THEN [app EXCEPT !.state = "Quitting"]
    ELSE IF key.code = "Right" THEN [app EXCEPT !.selected_tab = next(@)]
    ELSE IF key.code = "Left" THEN [app EXCEPT !.selected_tab = previous(@)]
    ELSE IF app.selected_tab = "Inspect"
    THEN IF key.code = "i" THEN [app EXCEPT !.selected_tab = "Process"] ELSE app
    ELSE IF key.code = "Down" THEN Down(app, lists)
    ELSE IF key.code = "Up" THEN Up(app, lists)
    ELSE IF key.code \in {"s", "h", "m"} /\ app.selected_tab = "Process"
    THEN [app EXCEPT !.process_view_state = ViewOf(key.code)]
    ELSE IF key.code = "i" /\ app.selected_tab = "Process"
    THEN [app EXCEPT !.selected_tab = "Inspect"]
    ELSE app

\* the main loop while app.state is Running: Event::Key(key_event)
HandleKeyEvents ==
    /\ pc = "events"
    /\ state = "Running"
    /\ \E key \in KeyEvents :
         /\ key_event' = key
         /\ state' = handle_key_events(key, TheApp, tab_lists).state
         /\ selected_tab' = handle_key_events(key, TheApp, tab_lists).selected_tab
         /\ table_states' = handle_key_events(key, TheApp, tab_lists).table_states
         /\ process_view_state' =
               handle_key_events(key, TheApp, tab_lists).process_view_state
         /\ pc' = IF handle_key_events(key, TheApp, tab_lists).panicked
                  THEN "panic in handle_key_events" ELSE pc
    /\ UNCHANGED <<file, scan_pos, sink_matches, index_map, crash_dump, term, call_depth,
                   result, build_vars, asked, text, ancestor_map, tab_lists>>

NextKeys == HandleKeyEvents

SpecKeys == InitKeys /\ [][NextKeys]_vars

-----------------------------------------------------------------------------
(* Claims about the key events.                                            *)

\* the selected row of the table of a tab is a row of the list of the tab,
\* and no key event has panicked
SelectionInList ==
    /\ pc # "panic in handle_key_events"
    /\ \A tab \in AllTabs :
          table_states[tab] # None => table_states[tab][1] < Len(tab_lists[tab])

\* a Down on the last row selects row 0, an Up on row 0 the last row
Wraps ==
    (selected_tab # "Inspect" /\ table_states[selected_tab] # None) =>
        /\ (/\ key_event'.code = "Down"
            /\ table_states[selected_tab][1] = Len(tab_lists[selected_tab]) - 1)
              => table_states'[selected_tab] = Some(0)
        /\ (key_event'.code = "Up" /\ table_states[selected_tab][1] = 0)
              => table_states'[selected_tab] = Some(Len(tab_lists[selected_tab]) - 1)

\* C30: after any key events, the selected row of every tab that has one is
\* less than the length of the list of the tab; Down on the last row selects
\* row 0, Up on row 0 the last row; the tab of an empty list never has a
\* selected row, and the index arithmetic never underflows.
C30_SelectionStaysInList ==
    /\ []SelectionInList
    /\ [][Wraps]_vars

\* Down was pressed on the last of two processes, and row 0 is selected
C30_WrappedToFirstRow ==
    /\ key_event.code = "Down"
    /\ selected_tab = "Process"
    /\ Len(tab_lists["Process"]) = 2
    /\ table_states["Process"] = Some(0)

====
